---- MODULE Spec2Model ----
(***************************************************************************)
(* Evaluation ledger (EvaluationCache), its record operation, the          *)
(* dashboard server that reads the ledgers and runs the pipeline, and the  *)
(* dashboard hooks that aggregate the ledgers.                             *)
(*                                                                         *)
(* Scores are fixed-point numbers in hundredths (100 is 1.0), costs and    *)
(* token counts are naturals.  Timestamps are ISO-8601 strings, modelled   *)
(* as sequences of digits and compared the way JavaScript compares         *)
(* strings.  A string is a sequence of one-character strings.              *)
(***************************************************************************)
EXTENDS Integers, Sequences, FiniteSets, TLC

\* ------------------------------------------------------------------ bounds
\* record calls of one run of the base specification
MaxRuns == 3
\* record calls while readers run (SpecRead) and while the hook aggregates (SpecAgg)
MaxReadRuns == 2
MaxAggRuns == 3
\* pipeline runs started, output chunks of one run, ledger changes of one run
MaxPipelineRuns == 2
MaxChunks == 1
MaxRunRecords == 1
\* pipeline runs started while two dashboards are connected
MaxNotifyRuns == 1
\* record calls beside the dashboard's loadCache and a ledger damaged from outside
MaxLoadRuns == 1
MaxListRuns == 2
MaxKeyRuns == 3
MaxEvents == 2
MaxClicks == 2
MaxSockets == 3
MaxTimers == 3
MaxEffects == 3
MaxOutages == 2
MaxCalls == 3
MaxStream == 103
MaxGarbled == 1
MaxPayloads == 5

\* ------------------------------------------------------------------ values
\* null of JSON / JavaScript; a timestamp is never the empty string
NULL == <<>>

Sources == {"s1", "s2"}

\* (provider, model_id) of the evaluated models
Models ==
    { [provider |-> <<"a">>, model_id |-> <<"x">>],
      [provider |-> <<"b">>, model_id |-> <<"y">>] }

\* "{provider}:{model_id}"
ModelKey(provider, model_id) == provider \o <<":">> \o model_id

ScoreFields ==
    { "schema_compliance", "structural_accuracy", "semantic_accuracy",
      "config_accuracy", "overall_score" }

UsageFields == { "cost", "input_tokens", "output_tokens" }

\* AggregateScores of the evaluation results a run can produce; the optional
\* usage fields are present in some and missing in others
Results ==
    { [schema_compliance |-> 100, structural_accuracy |-> 80, semantic_accuracy |-> 50,
       config_accuracy |-> 40, overall_score |-> 60,
       cost |-> 3, input_tokens |-> 7, output_tokens |-> 2],
      [schema_compliance |-> 100, structural_accuracy |-> 80, semantic_accuracy |-> 70,
       config_accuracy |-> 80, overall_score |-> 80],
      [schema_compliance |-> 80, structural_accuracy |-> 50, semantic_accuracy |-> 90,
       config_accuracy |-> 60, overall_score |-> 70,
       cost |-> 1, input_tokens |-> 4, output_tokens |-> 5],
      [schema_compliance |-> 0, structural_accuracy |-> 0, semantic_accuracy |-> 0,
       config_accuracy |-> 0, overall_score |-> 0,
       cost |-> 0] }

\* the results used where readers or the aggregating hook run beside record
FewResults == { r \in Results : r.overall_score \in {60, 80} }

\* datetime -> ISO-8601 string, here two digits
Iso(t) == << t \div 10, t % 10 >>

\* a < b for strings, as JavaScript's < on strings: by code unit, a proper
\* prefix being smaller
RECURSIVE StrLess(_, _)
StrLess(a, b) ==
    IF b = <<>> THEN FALSE
    ELSE IF a = <<>> THEN TRUE
    ELSE IF Head(a) # Head(b) THEN Head(a) < Head(b)
    ELSE StrLess(Tail(a), Tail(b))

StrGreater(a, b) == StrLess(b, a)

\* a mutant of the maximum that keeps its second argument
MaxIsSecond(a, b) == b

Max(a, b) == IF a >= b THEN a ELSE b

\* x.f, or 0 when the optional field f is missing
FieldOr0(x, f) == IF f \in DOMAIN x THEN x[f] ELSE 0

\* ------------------------------------------------------------------ ledger
\* RunHistoryEntry: the scores, with the usage fields the result has
HistoryEntry(result, timestamp) ==
    [ f \in (DOMAIN result) \cup {"timestamp"} |->
        IF f = "timestamp" THEN timestamp ELSE result[f] ]

\* a CachedModelResult with run_count 0
NewModelResult(model) ==
    [ model_id |-> model.model_id,
      provider |-> model.provider,
      run_count |-> 0,
      total_schema_compliance |-> 0,
      total_structural_accuracy |-> 0,
      total_semantic_accuracy |-> 0,
      total_config_accuracy |-> 0,
      total_overall_score |-> 0,
      total_cost |-> 0,
      total_input_tokens |-> 0,
      total_output_tokens |-> 0,
      best_score |-> 0,
      best_run_timestamp |-> NULL,
      latest_score |-> 0,
      latest_run_timestamp |-> NULL,
      run_history |-> <<>> ]

\* one run folded into a CachedModelResult; a mutant that leaves the cost out
AddRunNoCost(m, result, timestamp) ==
    [ m EXCEPT
        !.run_history = Append(@, HistoryEntry(result, timestamp)),
        !.run_count = @ + 1,
        !.total_schema_compliance = @ + result.schema_compliance,
        !.total_structural_accuracy = @ + result.structural_accuracy,
        !.total_semantic_accuracy = @ + result.semantic_accuracy,
        !.total_config_accuracy = @ + result.config_accuracy,
        !.total_overall_score = @ + result.overall_score,
        !.total_input_tokens = @ + FieldOr0(result, "input_tokens"),
        !.total_output_tokens = @ + FieldOr0(result, "output_tokens"),
        !.best_score = Max(@, result.overall_score),
        !.best_run_timestamp =
            IF result.overall_score > m.best_score THEN timestamp ELSE @,
        !.latest_score = result.overall_score,
        !.latest_run_timestamp = timestamp ]

\* a mutant that keeps the higher of the two scores as the latest
AddRunLatestMax(m, result, timestamp) ==
    [ m EXCEPT
        !.run_history = Append(@, HistoryEntry(result, timestamp)),
        !.run_count = @ + 1,
        !.total_schema_compliance = @ + result.schema_compliance,
        !.total_structural_accuracy = @ + result.structural_accuracy,
        !.total_semantic_accuracy = @ + result.semantic_accuracy,
        !.total_config_accuracy = @ + result.config_accuracy,
        !.total_overall_score = @ + result.overall_score,
        !.total_cost = @ + FieldOr0(result, "cost"),
        !.total_input_tokens = @ + FieldOr0(result, "input_tokens"),
        !.total_output_tokens = @ + FieldOr0(result, "output_tokens"),
        !.best_score = Max(@, result.overall_score),
        !.best_run_timestamp =
            IF result.overall_score > m.best_score THEN timestamp ELSE @,
        !.latest_score = Max(@, result.overall_score),
        !.latest_run_timestamp = timestamp ]

\* a mutant that takes the new score as the best one whatever it is
AddRunBestLast(m, result, timestamp) ==
    [ m EXCEPT
        !.run_history = Append(@, HistoryEntry(result, timestamp)),
        !.run_count = @ + 1,
        !.total_schema_compliance = @ + result.schema_compliance,
        !.total_structural_accuracy = @ + result.structural_accuracy,
        !.total_semantic_accuracy = @ + result.semantic_accuracy,
        !.total_config_accuracy = @ + result.config_accuracy,
        !.total_overall_score = @ + result.overall_score,
        !.total_cost = @ + FieldOr0(result, "cost"),
        !.total_input_tokens = @ + FieldOr0(result, "input_tokens"),
        !.total_output_tokens = @ + FieldOr0(result, "output_tokens"),
        !.best_score = result.overall_score,
        !.best_run_timestamp = timestamp,
        !.latest_score = result.overall_score,
        !.latest_run_timestamp = timestamp ]

\* record, the part on one CachedModelResult: append the history entry,
\* count the run, add to the totals, update best and latest
AddRun(m, result, timestamp) ==
    [ m EXCEPT
        !.run_history = Append(@, HistoryEntry(result, timestamp)),
        !.run_count = @ + 1,
        !.total_schema_compliance = @ + result.schema_compliance,
        !.total_structural_accuracy = @ + result.structural_accuracy,
        !.total_semantic_accuracy = @ + result.semantic_accuracy,
        !.total_config_accuracy = @ + result.config_accuracy,
        !.total_overall_score = @ + result.overall_score,
        !.total_cost = @ + FieldOr0(result, "cost"),
        !.total_input_tokens = @ + FieldOr0(result, "input_tokens"),
        !.total_output_tokens = @ + FieldOr0(result, "output_tokens"),
        !.best_score = Max(@, result.overall_score),
        !.best_run_timestamp =
            IF result.overall_score > m.best_score THEN timestamp ELSE @,
        !.latest_score = result.overall_score,
        !.latest_run_timestamp = timestamp ]

\* a freshly initialized EvaluationCache
EmptyCache(source) ==
    [ source_file |-> source, last_updated |-> NULL, models |-> <<>> ]

\* record, the part in memory: the cache with one evaluation result folded in
RecordInto(cache, model, result, timestamp) ==
    LET key == ModelKey(model.provider, model.model_id)
        old == IF key \in DOMAIN cache.models
               THEN cache.models[key] ELSE NewModelResult(model)
    IN  [ cache EXCEPT
            !.last_updated = timestamp,
            !.models = (key :> AddRun(old, result, timestamp)) @@ @ ]

\* ------------------------------------------------------------------ files
\* a file name of the results directory, as the sequence of its parts:
\* `cache_${source}.json`
LedgerName(source) == << "cache_", source, ".json" >>

\* the temporary file record writes before it replaces the ledger
TempName(source) == << "cache_", source, ".json", ".tmp" >>

\* a mutant of record's persist step that writes the ledger in place
TempNameInPlace(source) == LedgerName(source)

\* where persist writes before the replace
PersistTarget(source) == TempName(source)

\* a whole JSON text of a cache, and a text cut short by an interrupted write
JsonText(cache) == [ kind |-> "json", value |-> cache ]
TruncatedText(cache) == [ kind |-> "truncated", value |-> cache ]
\* a file whose read throws
Unreadable == [ kind |-> "unreadable", value |-> <<>> ]

\* JSON null, as a whole document or as one value of an object
JsonNull == [ null |-> TRUE ]
IsJsonNull(value) == DOMAIN value = {"null"}

\* a parsed document is a ledger when it has models and every one is complete
WellFormed(value) ==
    /\ "models" \in DOMAIN value
    /\ \A k \in DOMAIN value.models : "run_history" \in DOMAIN value.models[k]

VARIABLES
    files,      \* the results directory: file name -> content
    clock,      \* the time of the last evaluation result
    wr,         \* the record call in progress, or the last one
    persisted,  \* per source, the ledgers complete record calls have persisted
    ag,         \* useEvaluationData: the selectSource("all") call and its view
    rd,         \* server: the GET /api/evaluations/:source request in progress
    ls,         \* server: the getEvaluationCaches call in progress
    pipelineRunning,  \* server: the run flag
    pipelineProcess,  \* server: the handle of the spawned process, or NULL
    proc,       \* the processes spawned so far: state, exit code, pipes
    wsClients,  \* server: the registered WebSocket clients
    inbox,      \* per client, the messages sent to it and not yet handled
    hook,       \* per client, useWebSocket's state and the refreshes it asked for
    http,       \* the last answer of POST /api/run
    st,         \* the last answer of GET /api/status
    ld,         \* server: the loadCache call in progress
    ch,         \* useEvaluationData: a transformation to chart data, its input and result
    sc,         \* AggregateScorer: the four components given and the scores made of them
    fm,         \* FieldMatcher: the fields of a section pair and their evaluations
    ws,         \* useWebSocket: runStatus, messages, lastMessage and the event handled last
    btn,        \* RunButton: localLoading, error and the request in flight
    sock,       \* useWebSocket: the sockets it made, wsRef, the reconnect timers, connected
    sel,        \* useEvaluationData: the selectSource and refetch calls in flight and the view
    reg,        \* the WebSocket connections of the server and what each was sent
    km          \* the ledgers of models whose names hold a colon, the lookup and the aggregate made of them

ledgerVars == << files, clock, wr, persisted >>
aggVars == << ag >>
readVars == << rd, ls >>
runVars == << pipelineRunning, pipelineProcess, proc, wsClients, inbox, hook, http, st >>

loadVars == << ld >>
\* the calls of functions that keep no state between calls
pureVars == << ch, sc, fm, ws >>

\* the components and hooks of the page that are not part of the groups above
pageVars == << btn, sock, sel, reg >>

\* the ledgers looked up and aggregated by model key
keyVars == << km >>

vars == << ledgerVars, aggVars, readVars, runVars, loadVars, pureVars, pageVars, keyVars >>

\* what the steps of record leave alone
notLedger == << aggVars, readVars, runVars, loadVars, pureVars, pageVars, keyVars >>
\* what the steps of the useEvaluationData hook leave alone
notAgg == << ledgerVars, readVars, runVars, loadVars, pureVars, pageVars, keyVars >>
\* what the steps of the server's readers leave alone
notRead == << ledgerVars, aggVars, runVars, loadVars, pureVars, pageVars, keyVars >>
\* what the steps of the pipeline runner and the WebSocket leave alone
notRun == << ledgerVars, aggVars, readVars, loadVars, pureVars, pageVars, keyVars >>
\* what the steps of loadCache leave alone
notLoad == << ledgerVars, aggVars, readVars, runVars, pureVars, pageVars, keyVars >>
\* what a call of a function without state leaves alone
notPure == << ledgerVars, aggVars, readVars, runVars, loadVars, pageVars, keyVars >>
\* what the steps of the page's components leave alone, the server's run state apart
notPage == << ledgerVars, aggVars, readVars, loadVars, pureVars, keyVars >>

Exists(name) == name \in DOMAIN files

WriteFile(name, content) ==
    [ n \in (DOMAIN files) \cup {name} |-> IF n = name THEN content ELSE files[n] ]

\* load(sourceId): the ledger, or an empty cache when it is missing or corrupt
Load(source) ==
    IF /\ Exists(LedgerName(source))
       /\ files[LedgerName(source)].kind = "json"
       /\ WellFormed(files[LedgerName(source)].value)
    THEN files[LedgerName(source)].value
    ELSE EmptyCache(source)

\* what a reader of the ledger file sees now: the content, or NULL when missing
LedgerNow(source) ==
    IF Exists(LedgerName(source)) THEN files[LedgerName(source)] ELSE NULL

IdleWriter ==
    [ pc |-> "idle", source |-> "s1", model |-> CHOOSE m \in Models : TRUE,
      result |-> CHOOSE r \in Results : TRUE, timestamp |-> NULL,
      cache |-> EmptyCache("s1"), before |-> NULL, outcome |-> "none",
      failedAt |-> "none" ]

InitLedger ==
    /\ files = <<>>
    /\ clock = 0
    /\ wr = IdleWriter
    /\ persisted = [ s \in Sources |-> <<>> ]

\* record(evaluationResult): load the ledger and fold the result in
RecordBegin(results, limit) ==
    /\ wr.pc = "idle"
    /\ clock < limit
    /\ \E s \in Sources, m \in Models, r \in results :
         wr' = [ pc |-> "write", source |-> s, model |-> m, result |-> r,
                 timestamp |-> Iso(clock + 1),
                 cache |-> RecordInto(Load(s), m, r, Iso(clock + 1)),
                 before |-> LedgerNow(s), outcome |-> "none",
                 failedAt |-> "none" ]
    /\ clock' = clock + 1
    /\ UNCHANGED << files, persisted, notLedger >>

\* persist, first part: the temporary file is being written
PersistWriteTemp ==
    /\ wr.pc = "write"
    /\ files' = WriteFile(PersistTarget(wr.source), TruncatedText(wr.cache))
    /\ wr' = [ wr EXCEPT !.pc = "flush" ]
    /\ UNCHANGED << clock, persisted, notLedger >>

\* persist, second part: the temporary file holds the whole text
PersistFlushTemp ==
    /\ wr.pc = "flush"
    /\ files' = WriteFile(PersistTarget(wr.source), JsonText(wr.cache))
    /\ wr' = [ wr EXCEPT !.pc = "replace" ]
    /\ UNCHANGED << clock, persisted, notLedger >>

\* persist, last part: the temporary file replaces the ledger in one step
PersistReplace ==
    /\ wr.pc = "replace"
    /\ files' =
         [ n \in ((DOMAIN files) \ {PersistTarget(wr.source)}) \cup {LedgerName(wr.source)} |->
             IF n = LedgerName(wr.source) THEN files[PersistTarget(wr.source)] ELSE files[n] ]
    /\ persisted' = [ persisted EXCEPT ![wr.source] = Append(@, wr.cache) ]
    /\ wr' = [ wr EXCEPT !.pc = "idle", !.outcome = "ok" ]
    /\ UNCHANGED << clock, notLedger >>

\* the persist step fails (disk full, permission, interrupted write): the
\* temporary file is removed, never a partial file is left, and the failure
\* is surfaced to the caller of record
PersistFail ==
    /\ wr.pc \in {"write", "flush", "replace"}
    /\ wr' = [ wr EXCEPT !.pc = "idle", !.outcome = "error", !.failedAt = wr.pc ]
    /\ files' = [ n \in (DOMAIN files) \ {TempName(wr.source)} |-> files[n] ]
    /\ UNCHANGED << clock, persisted, notLedger >>

\* ------------------------------------------------------------------ useEvaluationData
\* a mutant of the merge that adds the aggregate's own cost instead of the model's
MergeModelOwnCost(existing, model) ==
    [ existing EXCEPT
        !.run_count = existing.run_count + model.run_count,
        !.total_schema_compliance =
            existing.total_schema_compliance + model.total_schema_compliance,
        !.total_structural_accuracy =
            existing.total_structural_accuracy + model.total_structural_accuracy,
        !.total_semantic_accuracy =
            existing.total_semantic_accuracy + model.total_semantic_accuracy,
        !.total_config_accuracy =
            existing.total_config_accuracy + model.total_config_accuracy,
        !.total_overall_score = existing.total_overall_score + model.total_overall_score,
        !.total_cost = FieldOr0(existing, "total_cost") + FieldOr0(existing, "total_cost"),
        !.total_input_tokens =
            FieldOr0(existing, "total_input_tokens") + FieldOr0(model, "total_input_tokens"),
        !.total_output_tokens =
            FieldOr0(existing, "total_output_tokens") + FieldOr0(model, "total_output_tokens"),
        !.best_score = Max(existing.best_score, model.best_score),
        !.latest_score =
            IF model.latest_score > existing.latest_score
            THEN model.latest_score ELSE existing.latest_score,
        !.latest_run_timestamp =
            IF model.latest_run_timestamp # NULL /\ existing.latest_run_timestamp # NULL
            THEN IF StrGreater(model.latest_run_timestamp, existing.latest_run_timestamp)
                 THEN model.latest_run_timestamp ELSE existing.latest_run_timestamp
            ELSE IF model.latest_run_timestamp # NULL
                 THEN model.latest_run_timestamp ELSE existing.latest_run_timestamp ]

\* aggregateCaches, the merge of a model into the entry its key already has:
\* { ...existing, run_count: ..., total_*: ..., best_score, latest_score,
\*   latest_run_timestamp }
MergeModel(existing, model) ==
    [ existing EXCEPT
        !.run_count = existing.run_count + model.run_count,
        !.total_schema_compliance =
            existing.total_schema_compliance + model.total_schema_compliance,
        !.total_structural_accuracy =
            existing.total_structural_accuracy + model.total_structural_accuracy,
        !.total_semantic_accuracy =
            existing.total_semantic_accuracy + model.total_semantic_accuracy,
        !.total_config_accuracy =
            existing.total_config_accuracy + model.total_config_accuracy,
        !.total_overall_score = existing.total_overall_score + model.total_overall_score,
        !.total_cost = FieldOr0(existing, "total_cost") + FieldOr0(model, "total_cost"),
        !.total_input_tokens =
            FieldOr0(existing, "total_input_tokens") + FieldOr0(model, "total_input_tokens"),
        !.total_output_tokens =
            FieldOr0(existing, "total_output_tokens") + FieldOr0(model, "total_output_tokens"),
        !.best_score = Max(existing.best_score, model.best_score),
        !.latest_score =
            IF model.latest_score > existing.latest_score
            THEN model.latest_score ELSE existing.latest_score,
        !.latest_run_timestamp =
            IF model.latest_run_timestamp # NULL /\ existing.latest_run_timestamp # NULL
            THEN IF StrGreater(model.latest_run_timestamp, existing.latest_run_timestamp)
                 THEN model.latest_run_timestamp ELSE existing.latest_run_timestamp
            ELSE IF model.latest_run_timestamp # NULL
                 THEN model.latest_run_timestamp ELSE existing.latest_run_timestamp ]

\* aggregateCaches, one turn of caches.forEach: every model of the cache is
\* merged into the entry of its key, or becomes that entry
MergeCache(aggregated, cache) ==
    [ k \in (DOMAIN aggregated) \cup (DOMAIN cache.models) |->
        IF k \notin DOMAIN cache.models THEN aggregated[k]
        ELSE IF k \in DOMAIN aggregated THEN MergeModel(aggregated[k], cache.models[k])
        ELSE cache.models[k] ]

\* aggregateCaches, the aggregated record built from the caches in their order
RECURSIVE AggregateFrom(_, _)
AggregateFrom(aggregated, caches) ==
    IF caches = <<>> THEN aggregated
    ELSE AggregateFrom(MergeCache(aggregated, Head(caches)), Tail(caches))

AggregateCaches(caches) == AggregateFrom(<<>>, caches)

\* the orders in which readdir can list a set of sources
RECURSIVE Orders(_)
Orders(set) ==
    IF set = {} THEN { <<>> }
    ELSE UNION { { <<x>> \o o : o \in Orders(set \ {x}) } : x \in set }

\* a mutant of aggregateCaches that merges into the entries of the first cache
InputsAfterAggregateInPlace(caches) ==
    IF caches = <<>> THEN caches
    ELSE [ caches EXCEPT ![1].models =
             [ k \in DOMAIN @ |-> AggregateCaches(caches)[k] ] ]

\* the caches given to aggregateCaches after the call: the first occurrence
\* is copied ({ ...model }) and a merge builds a new object
InputsAfterAggregate(caches) == caches

\* fetched holds the caches as the responses gave them; chartOf tells what
\* chartData was computed from
IdleAgg ==
    [ pc |-> "idle", pending |-> <<>>, caches |-> <<>>, fetched |-> <<>>,
      aggregated |-> <<>>, chartOf |-> "none",
      isAggregated |-> FALSE, selectedCache |-> NULL ]

InitAgg == ag = IdleAgg

\* selectSource("all"): fetchSummaries lists the ledgers there are
AggFetchSummaries ==
    /\ ag.pc \in {"idle", "shown"}
    /\ \E order \in Orders({ s \in Sources : Exists(LedgerName(s)) }) :
         ag' = [ ag EXCEPT !.pc = "fetching", !.pending = order,
                           !.caches = <<>>, !.fetched = <<>> ]
    /\ UNCHANGED notAgg

\* selectSource("all"), a turn of the loop: the next ledger is fetched and pushed
AggFetchCache ==
    /\ ag.pc = "fetching"
    /\ ag.pending # <<>>
    /\ ag' = [ ag EXCEPT
                 !.pending = Tail(@),
                 !.caches = IF /\ Exists(LedgerName(Head(ag.pending)))
                               /\ files[LedgerName(Head(ag.pending))].kind = "json"
                            THEN Append(@, files[LedgerName(Head(ag.pending))].value)
                            ELSE @,
                 !.fetched = IF /\ Exists(LedgerName(Head(ag.pending)))
                                /\ files[LedgerName(Head(ag.pending))].kind = "json"
                             THEN Append(@, files[LedgerName(Head(ag.pending))].value)
                             ELSE @ ]
    /\ UNCHANGED notAgg

\* selectSource("all"), after the loop: the aggregated view, or the empty one
AggShow ==
    /\ ag.pc = "fetching"
    /\ ag.pending = <<>>
    /\ ag' = [ ag EXCEPT
                 !.pc = "shown",
                 !.aggregated = AggregateCaches(ag.caches),
                 !.caches = InputsAfterAggregate(ag.caches),
                 !.chartOf = IF ag.caches # <<>> THEN "aggregate" ELSE "none",
                 !.isAggregated = (ag.caches # <<>>),
                 !.selectedCache = NULL ]
    /\ UNCHANGED notAgg

\* selectSource(source) for one source: the ledger is fetched and becomes the
\* selected cache; a response that is not ok sets the error and nothing else
AggSelectOne ==
    /\ ag.pc \in {"idle", "shown"}
    /\ \E s \in Sources :
         /\ Exists(LedgerName(s))
         /\ files[LedgerName(s)].kind = "json"
         /\ ag' = [ ag EXCEPT !.pc = "shown",
                              !.selectedCache = files[LedgerName(s)].value,
                              !.chartOf = "cache",
                              !.isAggregated = FALSE ]
    /\ UNCHANGED notAgg

NextAggLedger ==
    \/ RecordBegin(FewResults, MaxAggRuns)
    \/ PersistWriteTemp
    \/ PersistFlushTemp
    \/ PersistReplace
    \/ AggFetchSummaries
    \/ AggFetchCache
    \/ AggShow
    \/ AggSelectOne

\* ------------------------------------------------------------------ useEvaluationData: chart data
\* Math.round of num/den for num >= 0 and den > 0
RoundHalfUp(num, den) == (2 * num + den) \div (2 * den)

\* Math.round(avg * 100) where avg is total/run_count, or 0 without runs;
\* totals are in hundredths, so avg * 100 is total over run_count
Percent(total, run_count) ==
    IF run_count > 0 THEN RoundHalfUp(total, run_count) ELSE 0

\* avgCost: (total_cost || 0) / run_count, kept as the fraction, or 0
AverageCost(model) ==
    IF model.run_count > 0
    THEN [ num |-> FieldOr0(model, "total_cost"), den |-> model.run_count ]
    ELSE [ num |-> 0, den |-> 1 ]

\* one ModelChartData
ChartRow(key, model) ==
    [ key |-> key,
      name |-> model.model_id,
      provider |-> model.provider,
      overall |-> Percent(model.total_overall_score, model.run_count),
      schema |-> Percent(model.total_schema_compliance, model.run_count),
      structure |-> Percent(model.total_structural_accuracy, model.run_count),
      semantic |-> Percent(model.total_semantic_accuracy, model.run_count),
      config |-> Percent(model.total_config_accuracy, model.run_count),
      runCount |-> model.run_count,
      totalCost |-> FieldOr0(model, "total_cost"),
      averageCost |-> AverageCost(model),
      totalInputTokens |-> FieldOr0(model, "total_input_tokens"),
      totalOutputTokens |-> FieldOr0(model, "total_output_tokens") ]

\* Object.entries(models).map(...).sort((a, b) => b.overall - a.overall): the
\* rows by falling overall; rows that tie come in the order of the entries,
\* which is any order here
ChartData(models) ==
    { o \in Orders({ ChartRow(k, models[k]) : k \in DOMAIN models }) :
        \A i, j \in 1..Len(o) : i < j => o[i].overall >= o[j].overall }

\* a mutant of the transformation that stores the average in the entry
InputsAfterChartStored(caches) ==
    [ i \in 1..Len(caches) |->
        [ caches[i] EXCEPT !.models =
            [ k \in DOMAIN @ |->
                [ f \in (DOMAIN @[k]) \cup {"average_score"} |->
                    IF f = "average_score"
                    THEN Percent(@[k].total_overall_score, @[k].run_count)
                    ELSE @[k][f] ] ] ] ]

\* the caches given to transformToChartData or aggregateCaches after the
\* call: neither assigns to a cache or to an entry of one
InputsAfterChart(caches) == caches

\* the caches a transformation is given: ledgers after one, two and three
\* runs, and such ledgers with one more entry that has no run yet; alone, or
\* one of each source
WithUnrun(cache, model) ==
    [ cache EXCEPT !.models =
        (ModelKey(model.provider, model.model_id) :> NewModelResult(model)) @@ @ ]

OneRun(source) ==
    { RecordInto(EmptyCache(source), m, r, Iso(1)) : m \in Models, r \in Results }

TwoRuns(source) ==
    { RecordInto(c, m, r, Iso(2)) : c \in OneRun(source), m \in Models, r \in Results }

ThreeRuns(source) ==
    { RecordInto(c, m, r, Iso(3)) : c \in TwoRuns(source), m \in Models, r \in Results }

Ledgers(source) == OneRun(source) \cup TwoRuns(source) \cup ThreeRuns(source)

Unrun(source) ==
    UNION { { WithUnrun(c, m) :
                m \in { x \in Models : ModelKey(x.provider, x.model_id) \notin DOMAIN c.models } } :
            c \in Ledgers(source) \cup {EmptyCache(source)} }

ChartInputs ==
    { << c >> : c \in Ledgers("s1") \cup Unrun("s1") }
    \cup { << c, d >> : c \in OneRun("s1"), d \in OneRun("s2") }

IdleChart ==
    [ pc |-> "idle", given |-> <<>>, caches |-> <<>>, of |-> <<>>, chartData |-> <<>> ]

ChartGiven ==
    ch \in { [ IdleChart EXCEPT !.pc = "given", !.given = caches, !.caches = caches ] :
               caches \in ChartInputs }

\* transformToChartData(cache)
ChartTransform ==
    /\ ch.pc = "given"
    /\ Len(ch.caches) = 1
    /\ \E data \in ChartData(ch.caches[1].models) :
         ch' = [ ch EXCEPT !.pc = "shown",
                           !.of = ch.caches[1].models,
                           !.chartData = data,
                           !.caches = InputsAfterChart(ch.caches) ]
    /\ UNCHANGED << notPure, sc, fm, ws >>

\* aggregateCaches(caches): the aggregated record, then its chart data
ChartAggregate ==
    /\ ch.pc = "given"
    /\ \E data \in ChartData(AggregateCaches(ch.caches)) :
         ch' = [ ch EXCEPT !.pc = "shown",
                           !.of = AggregateCaches(ch.caches),
                           !.chartData = data,
                           !.caches = InputsAfterAggregate(ch.caches) ]
    /\ UNCHANGED << notPure, sc, fm, ws >>

NextChart ==
    \/ ChartTransform
    \/ ChartAggregate

\* ------------------------------------------------------------------ server: reading ledgers
\* a mutant of the filter that forgets the extension
IsCacheFileAnyExt(name) == Head(name) = "cache_"

\* getEvaluationCaches: filename.startsWith("cache_") && filename.endsWith(".json")
IsCacheFile(name) == Head(name) = "cache_" /\ name[Len(name)] = ".json"

\* ------------------------------------------------------------------ AggregateScorer
\* a mutant of the weights that sums to more than 1
WeightsConfigHeavy ==
    [ schema_compliance |-> 15, structural_accuracy |-> 20,
      semantic_accuracy |-> 30, config_accuracy |-> 40 ]

\* the aggregate weights, in hundredths
Weights ==
    [ schema_compliance |-> 15, structural_accuracy |-> 20,
      semantic_accuracy |-> 30, config_accuracy |-> 35 ]

RECURSIVE WeightedSum(_, _)
WeightedSum(components, names) ==
    IF names = {} THEN 0
    ELSE LET f == CHOOSE x \in names : TRUE
         IN  Weights[f] * components[f] + WeightedSum(components, names \ {f})

\* the AggregateScores of four components: overall_score is their weighted sum
AggregateScores(components) ==
    [ f \in (DOMAIN components) \cup {"overall_score"} |->
        IF f = "overall_score"
        THEN WeightedSum(components, DOMAIN Weights) \div 100
        ELSE components[f] ]

\* scores between 0 and 1 in steps of 0.2, and the components of the sample results
ScoreGrid == { 0, 20, 40, 60, 80, 100 }

ScoreInputs ==
    [ DOMAIN Weights -> ScoreGrid ]
    \cup { [ f \in DOMAIN Weights |-> r[f] ] : r \in Results }

IdleScore == [ pc |-> "idle", components |-> <<>>, scores |-> <<>> ]

ScoreGiven ==
    sc \in { [ IdleScore EXCEPT !.pc = "given", !.components = c ] : c \in ScoreInputs }

\* AggregateScorer: the scores of a document
Aggregate ==
    /\ sc.pc = "given"
    /\ sc' = [ sc EXCEPT !.pc = "scored", !.scores = AggregateScores(sc.components) ]
    /\ UNCHANGED << notPure, ch, fm, ws >>

NextScore == Aggregate

\* ------------------------------------------------------------------ FieldMatcher
\* the ground-truth and the candidate fields of a section, by identifier
GroundTruthIds == << "g1", "g2" >>
CandidateIds == << "c1", "c2" >>
\* the candidate id of an evaluation without a candidate, the source id of
\* one without a source
NoField == "null"

\* combined similarities in hundredths: below the partial threshold, between
\* the two thresholds, above the exact threshold
SimLevels == { 30, 60, 90 }
PartialThreshold == 50
ExactThreshold == 85

Prefix(ids, n) == { ids[i] : i \in 1..n }

\* the section pairs given to the matcher: up to two fields on either side,
\* every similarity and rating-type match between them
MatchInputs ==
    UNION { UNION { { [ gt |-> Prefix(GroundTruthIds, n), cand |-> Prefix(CandidateIds, m),
                        sim |-> sim, rating |-> rating ] :
                        sim \in [ Prefix(GroundTruthIds, n) \X Prefix(CandidateIds, m) -> SimLevels ],
                        rating \in [ Prefix(GroundTruthIds, n) \X Prefix(CandidateIds, m) -> BOOLEAN ] } :
                    m \in 0..Len(CandidateIds) } :
            n \in 0..Len(GroundTruthIds) }

IdleMatch ==
    [ pc |-> "idle", gt |-> {}, cand |-> {}, sim |-> <<>>, rating |-> <<>>,
      unassignedGt |-> {}, unassignedCand |-> {}, fields |-> <<>> ]

MatchGiven ==
    fm \in { [ IdleMatch EXCEPT !.pc = "matching", !.gt = x.gt, !.cand = x.cand,
                                !.sim = x.sim, !.rating = x.rating,
                                !.unassignedGt = x.gt, !.unassignedCand = x.cand ] :
               x \in MatchInputs }

\* exact at or above the exact threshold with the same rating type, partial
\* for every other assigned pair
Classify(sim, rating_type_match) ==
    IF sim >= ExactThreshold /\ rating_type_match THEN "exact" ELSE "partial"

\* a mutant of the assignment that leaves the candidate unassigned
UnassignedAfterKept(unassigned, c) == unassigned

\* the unassigned candidates after c was assigned
UnassignedAfter(unassigned, c) == unassigned \ {c}

\* the unassigned pairs whose similarity exceeds the partial threshold
Assignable ==
    { p \in fm.unassignedGt \X fm.unassignedCand : fm.sim[p] > PartialThreshold }

\* greedy assignment, one turn: an unassigned pair of the highest similarity
\* is assigned and evaluated
FieldMatchPick ==
    /\ fm.pc = "matching"
    /\ \E p \in Assignable :
         /\ \A q \in Assignable : fm.sim[q] <= fm.sim[p]
         /\ fm' = [ fm EXCEPT
                      !.unassignedGt = @ \ {p[1]},
                      !.unassignedCand = UnassignedAfter(@, p[2]),
                      !.fields = Append(@, [ source_field_id |-> p[1],
                                             model_field_id |-> p[2],
                                             match_type |-> Classify(fm.sim[p], fm.rating[p]),
                                             rating_type_match |-> fm.rating[p],
                                             overall_score |-> fm.sim[p] ]) ]
    /\ UNCHANGED << notPure, ch, sc, ws >>

\* the evaluations of fields left unassigned, in one of their orders
LeftOver(ids, type) ==
    { [ i \in 1..Len(o) |->
          [ source_field_id |-> IF type = "missing" THEN o[i] ELSE NoField,
            model_field_id |-> IF type = "missing" THEN NoField ELSE o[i],
            match_type |-> type,
            rating_type_match |-> FALSE,
            overall_score |-> 0 ] ] : o \in Orders(ids) }

\* greedy assignment, after the last turn: the ground-truth fields left are
\* missing, the candidate fields left are extra
FieldMatchRest ==
    /\ fm.pc = "matching"
    /\ Assignable = {}
    /\ \E missing \in LeftOver(fm.unassignedGt, "missing"),
          extra \in LeftOver(fm.unassignedCand, "extra") :
         fm' = [ fm EXCEPT !.pc = "done",
                           !.unassignedGt = {},
                           !.unassignedCand = {},
                           !.fields = @ \o missing \o extra ]
    /\ UNCHANGED << notPure, ch, sc, ws >>

NextMatch ==
    \/ FieldMatchPick
    \/ FieldMatchRest

\* a mutant of the read that removes what it has read
FilesAfterTextConsumed(name) ==
    [ n \in (DOMAIN files) \ {name} |-> files[n] ]

\* `await Bun.file(path).text()`: the files after the read, as they were
FilesAfterText(name) == files

\* what a read of a file leaves alone besides the files
notReadText == << clock, wr, persisted, aggVars, runVars, loadVars, pureVars, pageVars, keyVars >>

IdleGet ==
    [ pc |-> "idle", source |-> "s1", status |-> 0, body |-> NULL,
      existsAt |-> 0, readAt |-> 0, during |-> "none" ]

IdleList ==
    [ pc |-> "idle", pending |-> <<>>, caches |-> <<>>, failed |-> FALSE,
      from |-> [ s \in Sources |-> 0 ] ]

InitRead == rd = IdleGet /\ ls = IdleList

\* GET /api/evaluations/:source, up to `await file.exists()`: 404 when the
\* ledger file is not there
GetExists ==
    /\ rd.pc \in {"idle", "done"}
    /\ \E s \in Sources :
         rd' = [ pc |-> IF Exists(LedgerName(s)) THEN "read" ELSE "done",
                 source |-> s,
                 status |-> IF Exists(LedgerName(s)) THEN 0 ELSE 404,
                 body |-> NULL,
                 existsAt |-> Len(persisted[s]), readAt |-> 0, during |-> "none" ]
    /\ UNCHANGED << notRead, ls >>

\* GET /api/evaluations/:source, `await file.text()` and JSON.parse: the parsed
\* ledger, or 500 when reading or parsing throws
GetRead ==
    /\ rd.pc = "read"
    /\ LET name == LedgerName(rd.source)
           ok == Exists(name) /\ files[name].kind = "json"
       IN  rd' = [ rd EXCEPT
                     !.pc = "done",
                     !.status = IF ok THEN 200 ELSE 500,
                     !.body = IF ok THEN files[name].value ELSE NULL,
                     !.readAt = Len(persisted[rd.source]),
                     !.during = IF wr.source = rd.source THEN wr.pc ELSE "none" ]
    /\ files' = FilesAfterText(LedgerName(rd.source))
    /\ UNCHANGED << notReadText, ls >>

\* getEvaluationCaches, `await fs.readdir(cacheDir)`: the cache files to read
ListDir ==
    /\ ls.pc \in {"idle", "done"}
    /\ \E order \in Orders({ n \in DOMAIN files : IsCacheFile(n) }) :
         ls' = [ pc |-> "reading", pending |-> order, caches |-> <<>>, failed |-> FALSE,
                 from |-> [ s \in Sources |-> Len(persisted[s]) ] ]
    /\ UNCHANGED << notRead, rd >>

\* getEvaluationCaches, a turn of the loop: the file is read, parsed and
\* pushed; when that throws, the catch ends the loop and the caches read so
\* far are returned
ListRead ==
    /\ ls.pc = "reading"
    /\ ls.pending # <<>>
    /\ LET name == Head(ls.pending)
           ok == Exists(name) /\ files[name].kind = "json"
       IN  ls' = [ ls EXCEPT
                     !.pc = IF ok THEN "reading" ELSE "done",
                     !.pending = Tail(@),
                     !.caches = IF ok THEN Append(@, files[name].value) ELSE @,
                     !.failed = ~ok ]
    /\ files' = FilesAfterText(Head(ls.pending))
    /\ UNCHANGED << notReadText, rd >>

\* getEvaluationCaches, after the loop: return caches
ListDone ==
    /\ ls.pc = "reading"
    /\ ls.pending = <<>>
    /\ ls' = [ ls EXCEPT !.pc = "done" ]
    /\ UNCHANGED << notRead, rd >>

NextReadLedger ==
    \/ RecordBegin(FewResults, MaxReadRuns)
    \/ PersistWriteTemp
    \/ PersistFlushTemp
    \/ PersistReplace
    \/ PersistFail
    \/ GetExists
    \/ GetRead
    \/ ListDir
    \/ ListRead
    \/ ListDone

\* ------------------------------------------------------------------ server: pipeline and WebSocket
Clients == {"c1", "c2"}
OneClient == {"c1"}

\* the kinds of line the pipeline writes on stdout: "[1/2] ...", a line with
\* "[", "/" and "]" but no [n/m], "SUCCESS: ...", "ERROR: ...", any other line
LineKinds == {"progress", "brackets", "success", "error", "other"}

\* the message type the stdout reader broadcasts for a line, "none" for no message
LineMessage(kind) ==
    CASE kind = "progress" -> "model_started"
      [] kind = "brackets" -> "none"
      [] kind = "success" -> "model_completed"
      [] kind = "error" -> "run_error"
      [] OTHER -> "model_started"

\* broadcast(message): one payload to every registered client
Broadcast(boxes, types) ==
    [ c \in Clients |-> IF c \in wsClients THEN boxes[c] \o types ELSE boxes[c] ]

\* a message of a run: its type and the field of data that carries its text
Msg(type, payload) == [ type |-> type, payload |-> payload ]

TypesOf(msgs) == [ i \in 1..Len(msgs) |-> msgs[i].type ]

\* a mutant of the outcome that announces a cache update after any exit
OutcomeAlwaysUpdated(exitCode) ==
    IF exitCode = 0
    THEN << Msg("run_completed", "message"), Msg("cache_updated", "message") >>
    ELSE << Msg("run_error", "error"), Msg("cache_updated", "message") >>

\* runPipeline, what is broadcast after the process has exited
Outcome(exitCode) ==
    IF exitCode = 0
    THEN << Msg("run_completed", "message"), Msg("cache_updated", "message") >>
    ELSE << Msg("run_error", "error") >>

\* a process spawned by runPipeline; notified holds the clients cache_updated
\* was broadcast to, once it has been broadcast for this run; log holds the
\* messages broadcast for this run, in the order of the broadcast calls
NoProcess ==
    [ state |-> "none", exitCode |-> 0, out |-> <<>>, err |-> <<>>,
      chunks |-> 0, records |-> 0, ended |-> FALSE, notified |-> <<>>,
      log |-> <<>> ]

Spawned == { p \in DOMAIN proc : proc[p].state # "none" }

InitRun ==
    /\ pipelineRunning = FALSE
    /\ pipelineProcess = NULL
    /\ proc = [ p \in 1..MaxPipelineRuns |-> NoProcess ]
    /\ wsClients = {}
    /\ inbox = [ c \in Clients |-> <<>> ]
    /\ hook = [ c \in Clients |-> [ status |-> "idle", refreshes |-> 0, handled |-> 0 ] ]
    /\ http = [ status |-> 0, error |-> "", wasRunning |-> FALSE, changed |-> FALSE ]
    /\ st = [ status |-> "none", held |-> FALSE, ended |-> 0 ]

\* the run state a POST /api/run could change
RunState == << pipelineRunning, pipelineProcess, proc, inbox >>

\* a mutant of the route that has lost its guard
RouteBusyNever == FALSE

\* POST /api/run: if (pipelineRunning)
RouteBusy == pipelineRunning

\* POST /api/run while a run is in progress: 400, nothing else
PostRunRejected ==
    /\ RouteBusy
    /\ http' = [ status |-> 400, error |-> "Pipeline is already running",
                 wasRunning |-> pipelineRunning, changed |-> FALSE ]
    /\ UNCHANGED << pipelineRunning, pipelineProcess, proc, wsClients, inbox, hook, st >>
    /\ UNCHANGED notRun

\* POST /api/run, runPipeline() up to its first await: the guard, the flag,
\* run_started, the spawn; the route answers "Pipeline started"
PostRunStarted(limit) ==
    /\ ~RouteBusy
    /\ Cardinality(Spawned) < limit
    /\ LET p == Cardinality(Spawned) + 1
       IN  IF pipelineRunning
           THEN /\ UNCHANGED << pipelineRunning, pipelineProcess, proc, inbox >>
           ELSE /\ pipelineRunning' = TRUE
                /\ pipelineProcess' = << p >>
                /\ proc' = [ proc EXCEPT ![p].state = "running",
                                         ![p].log = << Msg("run_started", "message") >> ]
                /\ inbox' = Broadcast(inbox, << "run_started" >>)
    /\ http' = [ status |-> 200, error |-> "",
                 wasRunning |-> pipelineRunning, changed |-> RunState' # RunState ]
    /\ UNCHANGED << wsClients, hook, st >>
    /\ UNCHANGED notRun

\* POST /api/run when spawn throws: the catch resets the flag and the handle
\* and broadcasts run_error
PostRunSpawnThrows(limit) ==
    /\ ~RouteBusy
    /\ ~pipelineRunning
    /\ Cardinality(Spawned) < limit
    /\ LET p == Cardinality(Spawned) + 1
       IN  /\ proc' = [ proc EXCEPT ![p].state = "failed", ![p].ended = TRUE,
                                    ![p].log = << Msg("run_started", "message"),
                                                  Msg("run_error", "error") >> ]
           /\ inbox' = Broadcast(inbox, << "run_started", "run_error" >>)
    /\ pipelineRunning' = FALSE
    /\ pipelineProcess' = NULL
    /\ http' = [ status |-> 200, error |-> "",
                 wasRunning |-> pipelineRunning, changed |-> RunState' # RunState ]
    /\ UNCHANGED << wsClients, hook, st >>
    /\ UNCHANGED notRun

\* the pipeline process writes a line on stdout
ChildStdout(p) ==
    /\ proc[p].state = "running"
    /\ proc[p].chunks < MaxChunks
    /\ \E kind \in LineKinds :
         proc' = [ proc EXCEPT ![p].out = Append(@, kind), ![p].chunks = @ + 1 ]
    /\ UNCHANGED << pipelineRunning, pipelineProcess, wsClients, inbox, hook, http, st >>
    /\ UNCHANGED notRun

\* the pipeline process writes on stderr
ChildStderr(p) ==
    /\ proc[p].state = "running"
    /\ proc[p].chunks < MaxChunks
    /\ proc' = [ proc EXCEPT ![p].err = Append(@, "text"), ![p].chunks = @ + 1 ]
    /\ UNCHANGED << pipelineRunning, pipelineProcess, wsClients, inbox, hook, http, st >>
    /\ UNCHANGED notRun

\* the pipeline process records an evaluation result: a ledger changes
ChildRecord(p) ==
    /\ proc[p].state = "running"
    /\ proc[p].records < MaxRunRecords
    /\ proc' = [ proc EXCEPT ![p].records = @ + 1 ]
    /\ UNCHANGED << pipelineRunning, pipelineProcess, wsClients, inbox, hook, http, st >>
    /\ UNCHANGED notRun

\* the pipeline process exits
ChildExit(p) ==
    /\ proc[p].state = "running"
    /\ \E code \in {0, 1} :
         proc' = [ proc EXCEPT ![p].state = "exited", ![p].exitCode = code ]
    /\ UNCHANGED << pipelineRunning, pipelineProcess, wsClients, inbox, hook, http, st >>
    /\ UNCHANGED notRun

\* runPipeline, the stdout reader: a chunk is read and its line broadcast
ReadStdout(p) ==
    /\ proc[p].out # <<>>
    /\ LET type == LineMessage(Head(proc[p].out))
           types == IF type = "none" THEN <<>> ELSE << type >>
       IN  /\ inbox' = Broadcast(inbox, types)
           /\ proc' = [ proc EXCEPT
                          ![p].out = Tail(@),
                          ![p].log = @ \o [ i \in 1..Len(types) |-> Msg(types[i], "message") ] ]
    /\ UNCHANGED << pipelineRunning, pipelineProcess, wsClients, hook, http, st >>
    /\ UNCHANGED notRun

\* runPipeline, the stderr reader: a chunk is read and broadcast as run_error
ReadStderr(p) ==
    /\ proc[p].err # <<>>
    /\ proc' = [ proc EXCEPT ![p].err = Tail(@),
                             ![p].log = Append(@, Msg("run_error", "message")) ]
    /\ inbox' = Broadcast(inbox, << "run_error" >>)
    /\ UNCHANGED << pipelineRunning, pipelineProcess, wsClients, hook, http, st >>
    /\ UNCHANGED notRun

\* a mutant of the reset that keeps the flag after a failed run
FlagAfterExitKeptOnError(exitCode) == exitCode # 0

\* runPipeline, pipelineRunning after the process has exited
FlagAfterExit(exitCode) == FALSE

\* the runs whose process is held: spawned, and runPipeline has not yet
\* come back from `await pipelineProcess.exited`
Held == { p \in DOMAIN proc : proc[p].state \in {"running", "exited"} /\ ~proc[p].ended }

\* GET /api/status: "running" or "idle" by the flag; held and ended tell
\* whether a process was held and how many runs had ended when it was asked
GetStatus ==
    /\ st' = [ status |-> IF pipelineRunning THEN "running" ELSE "idle",
               held |-> Held # {},
               ended |-> Cardinality({ p \in DOMAIN proc : proc[p].ended }) ]
    /\ UNCHANGED << pipelineRunning, pipelineProcess, proc, wsClients, inbox, hook, http >>
    /\ UNCHANGED notRun

\* runPipeline after `await pipelineProcess.exited`: the flag and the handle
\* are reset; run_completed and cache_updated on exit code 0, run_error otherwise
RunEnded(p) ==
    /\ proc[p].state = "exited"
    /\ ~proc[p].ended
    /\ pipelineRunning' = FlagAfterExit(proc[p].exitCode)
    /\ pipelineProcess' = NULL
    /\ inbox' = Broadcast(inbox, TypesOf(Outcome(proc[p].exitCode)))
    /\ proc' = [ proc EXCEPT
                   ![p].ended = TRUE,
                   ![p].log = @ \o Outcome(proc[p].exitCode),
                   ![p].notified =
                       IF \E i \in DOMAIN Outcome(proc[p].exitCode) :
                            Outcome(proc[p].exitCode)[i].type = "cache_updated"
                       THEN << wsClients >> ELSE @ ]
    /\ UNCHANGED << wsClients, hook, http, st >>
    /\ UNCHANGED notRun

\* websocket.open: the client is registered and greeted
WsOpen(c) ==
    /\ c \notin wsClients
    /\ wsClients' = wsClients \cup {c}
    /\ inbox' = [ inbox EXCEPT ![c] = Append(@, "connected") ]
    /\ UNCHANGED << pipelineRunning, pipelineProcess, proc, hook, http, st >>
    /\ UNCHANGED notRun

\* websocket.close: the client is removed; what was not delivered is lost
WsClose(c) ==
    /\ c \in wsClients
    /\ wsClients' = wsClients \ {c}
    /\ inbox' = [ inbox EXCEPT ![c] = <<>> ]
    /\ UNCHANGED << pipelineRunning, pipelineProcess, proc, hook, http, st >>
    /\ UNCHANGED notRun

\* useWebSocket, the status a message type sets; "keep" leaves it
StatusAfter(type) ==
    CASE type = "run_started" -> "running"
      [] type = "model_started" -> "running"
      [] type = "run_completed" -> "completed"
      [] type = "run_error" -> "error"
      [] OTHER -> "keep"

\* useWebSocket, ws.onmessage: the status follows the type; cache_updated
\* calls onCacheUpdatedRef.current, which is App's handleCacheUpdated: refetch()
OnMessage(c) ==
    /\ inbox[c] # <<>>
    /\ inbox' = [ inbox EXCEPT ![c] = Tail(@) ]
    /\ LET type == Head(inbox[c])
       IN  hook' = [ hook EXCEPT
                       ![c].status = IF StatusAfter(type) = "keep" THEN @ ELSE StatusAfter(type),
                       ![c].refreshes = IF type = "cache_updated" THEN @ + 1 ELSE @,
                       ![c].handled = IF type = "cache_updated" THEN @ + 1 ELSE @ ]
    /\ UNCHANGED << pipelineRunning, pipelineProcess, proc, wsClients, http, st >>
    /\ UNCHANGED notRun

\* useWebSocket, the text of a field that is not there
Undefined == "undefined"

\* the message types of WSMessageType
MessageTypes ==
    { "connected", "run_started", "model_started", "model_completed",
      "run_completed", "run_error", "cache_updated" }

\* what a socket can deliver: a text that JSON.parse rejects, or a message of
\* one of the types, with or without data.message, data.error, data.progress
Unparsable ==
    [ parsed |-> FALSE, type |-> "none", message |-> Undefined, error |-> Undefined,
      progress |-> Undefined, timestamp |-> 0 ]

WsEvents ==
    {Unparsable} \cup
    [ parsed : {TRUE}, type : MessageTypes, message : {Undefined, "m"},
      error : {Undefined, "e"}, progress : {Undefined, "p"}, timestamp : {0} ]

\* setMessages keeps the last 99 messages and adds the new one
KeptMessages == 99

\* a mutant of the slice that drops nothing
LastOfAll(seq, n) == seq

LastOf(seq, n) ==
    IF Len(seq) <= n THEN seq ELSE SubSeq(seq, Len(seq) - n + 1, Len(seq))

\* lastMessage before any message
NoMessage ==
    [ parsed |-> TRUE, type |-> "null", message |-> Undefined, error |-> Undefined,
      progress |-> Undefined, timestamp |-> 0 ]

\* useWebSocket after its first render
IdleHook ==
    [ runStatus |-> [ status |-> "idle", message |-> Undefined, progress |-> Undefined ],
      messages |-> <<>>, lastMessage |-> NoMessage, refreshes |-> 0,
      count |-> 0, event |-> NoMessage, garbled |-> {} ]

\* a || b of two optional texts
OrElse(a, b) == IF a # Undefined THEN a ELSE b

\* a mutant of the switch whose model_completed builds a new runStatus
RunStatusAfterFresh(prev, m) ==
    CASE m.type = "run_started" ->
           [ status |-> "running", message |-> m.message, progress |-> Undefined ]
      [] m.type = "model_started" ->
           [ status |-> "running", message |-> m.message, progress |-> m.progress ]
      [] m.type = "model_completed" ->
           [ status |-> prev.status, message |-> m.message, progress |-> Undefined ]
      [] m.type = "run_completed" ->
           [ status |-> "completed", message |-> m.message, progress |-> Undefined ]
      [] m.type = "run_error" ->
           [ status |-> "error", message |-> OrElse(m.error, m.message), progress |-> Undefined ]
      [] OTHER -> prev

\* ws.onmessage, the switch on message.type: the runStatus it sets
RunStatusAfter(prev, m) ==
    CASE m.type = "run_started" ->
           [ status |-> StatusAfter(m.type), message |-> m.message, progress |-> Undefined ]
      [] m.type = "model_started" ->
           [ status |-> StatusAfter(m.type), message |-> m.message, progress |-> m.progress ]
      [] m.type = "model_completed" ->
           [ prev EXCEPT !.message = m.message ]
      [] m.type = "run_completed" ->
           [ status |-> StatusAfter(m.type), message |-> m.message, progress |-> Undefined ]
      [] m.type = "run_error" ->
           [ status |-> StatusAfter(m.type), message |-> OrElse(m.error, m.message),
             progress |-> Undefined ]
      [] OTHER -> prev

\* ws.onmessage: JSON.parse, setLastMessage, setMessages, the switch; a text
\* that does not parse is caught and logged
\* count numbers the texts delivered, event is the last of them, garbled
\* holds the numbers of those that did not parse
Handled(h, e) ==
    IF ~e.parsed
    THEN [ h EXCEPT !.count = @ + 1, !.event = e, !.garbled = @ \cup {h.count + 1} ]
    ELSE [ h EXCEPT
             !.count = @ + 1,
             !.event = e,
             !.lastMessage = e,
             !.messages = Append(LastOf(@, KeptMessages), e),
             !.runStatus = RunStatusAfter(@, e),
             !.refreshes = IF e.type = "cache_updated" THEN @ + 1 ELSE @ ]

\* the server stamps each message; here with the number of its delivery
Stamped(e, n) == IF e.parsed THEN [ e EXCEPT !.timestamp = n ] ELSE e

HookOnMessage ==
    /\ ws.count < MaxEvents
    /\ \E e \in WsEvents : ws' = Handled(ws, Stamped(e, ws.count + 1))
    /\ UNCHANGED << notPure, ch, sc, fm >>

NextHook == HookOnMessage

\* a long run of the pipeline: one line of progress after the other, and
\* now and then a text that does not parse
StreamEvents ==
    { Unparsable,
      [ parsed |-> TRUE, type |-> "model_started", message |-> "m", error |-> Undefined,
        progress |-> "p", timestamp |-> 0 ] }

HookOnStream ==
    /\ ws.count < MaxStream
    /\ \E e \in StreamEvents :
         /\ ~e.parsed => Cardinality(ws.garbled) < MaxGarbled
         /\ ws' = Handled(ws, Stamped(e, ws.count + 1))
    /\ UNCHANGED << notPure, ch, sc, fm >>

NextStream == HookOnStream

\* ------------------------------------------------------------------ the subscriber registry
\* the server's connections: open holds the clients whose socket is open,
\* got what each was sent on its connection, payloads counts the payloads
\* built so far and stamps them, last is the last broadcast
IdleRegistry ==
    [ open |-> {}, got |-> [ c \in Clients |-> <<>> ], payloads |-> 0,
      last |-> [ payload |-> [ type |-> "none", timestamp |-> 0 ], to |-> {} ] ]

\* JSON.stringify({ ...message, timestamp }): one payload
Payload(type) == [ type |-> type, timestamp |-> reg.payloads + 1 ]

\* a mutant of close that leaves the client registered
ClientsAfterCloseKept(clients, c) == clients

\* websocket.close: wsClients.delete(ws)
ClientsAfterClose(clients, c) == clients \ {c}

\* websocket.open: wsClients.add(ws), then ws.send of "connected"
RegistryOpen(c) ==
    /\ c \notin reg.open
    /\ reg.payloads < MaxPayloads
    /\ wsClients' = wsClients \cup {c}
    /\ reg' = [ reg EXCEPT !.open = @ \cup {c},
                           !.got[c] = << Payload("connected") >>,
                           !.payloads = @ + 1 ]
    /\ UNCHANGED << pipelineRunning, pipelineProcess, proc, inbox, hook, http, st >>
    /\ UNCHANGED << notPage, btn, sock, sel >>

\* websocket.close
RegistryClose(c) ==
    /\ c \in reg.open
    /\ wsClients' = ClientsAfterClose(wsClients, c)
    /\ reg' = [ reg EXCEPT !.open = @ \ {c}, !.got[c] = <<>> ]
    /\ UNCHANGED << pipelineRunning, pipelineProcess, proc, inbox, hook, http, st >>
    /\ UNCHANGED << notPage, btn, sock, sel >>

\* broadcast(message): the payload is built once and sent to every client of
\* wsClients; a send to a socket that is no longer open is lost
RegistryBroadcast(type) ==
    /\ reg.payloads < MaxPayloads
    /\ reg' = [ reg EXCEPT
                  !.got = [ c \in Clients |->
                              IF c \in wsClients /\ c \in reg.open
                              THEN Append(@[c], Payload(type)) ELSE @[c] ],
                  !.payloads = @ + 1,
                  !.last = [ payload |-> Payload(type), to |-> wsClients ] ]
    /\ UNCHANGED runVars
    /\ UNCHANGED << notPage, btn, sock, sel >>

NextRegistry ==
    \/ \E c \in Clients : RegistryOpen(c)
    \/ \E c \in Clients : RegistryClose(c)
    \/ \E type \in {"run_started", "cache_updated"} : RegistryBroadcast(type)

\* ------------------------------------------------------------------ useEvaluationData, overlapping calls
\* the source "all" of the aggregated view, and no selected cache
AllSources == "all"
NoCache == "null"

\* what a selectSource call can be asked for
Requests == Sources \cup {AllSources}

\* the view the hook returns: selectedCache by its source, chartData by what
\* it was made of ("none" for [], "aggregate", or the source of one cache)
IdleView ==
    [ selectedCache |-> NoCache, chartData |-> "none", isAggregated |-> FALSE,
      loading |-> TRUE, error |-> "" ]

\* useEvaluationData after its first render: dir holds the sources that have
\* a ledger, calls the calls made so far in the order they were made
IdleSelect == [ dir |-> {}, calls |-> <<>>, view |-> IdleView ]

\* the view a call for one source sets when its cache has arrived
ViewOfCache(view, source) ==
    [ view EXCEPT !.selectedCache = source, !.chartData = source,
                  !.isAggregated = FALSE, !.error = "", !.loading = FALSE ]

\* the view selectSource("all") sets when there are caches to aggregate
ViewOfAggregate(view) ==
    [ view EXCEPT !.selectedCache = NoCache, !.chartData = "aggregate",
                  !.isAggregated = TRUE, !.error = "", !.loading = FALSE ]

\* the view selectSource("all") sets when there is nothing to aggregate
ViewOfNothing(view) ==
    [ view EXCEPT !.selectedCache = NoCache, !.chartData = "none",
                  !.isAggregated = FALSE, !.loading = FALSE ]

\* the pipeline writes the ledger of a source
LedgerAppears(source) ==
    /\ source \notin sel.dir
    /\ sel' = [ sel EXCEPT !.dir = @ \cup {source} ]
    /\ UNCHANGED << notPage, runVars, btn, sock, reg >>

\* selectSource(source) up to its first await: setLoading(true)
SelectBegin(source) ==
    /\ Len(sel.calls) < MaxCalls
    /\ sel' = [ sel EXCEPT
                  !.view.loading = TRUE,
                  !.calls = Append(@, [ kind |-> "select", source |-> source,
                                        pc |-> IF source = AllSources THEN "summaries" ELSE "cache",
                                        wrote |-> FALSE ]) ]
    /\ UNCHANGED << notPage, runVars, btn, sock, reg >>

\* refetch() up to its first await: setLoading(true), fetchSummaries()
RefetchBegin ==
    /\ Len(sel.calls) < MaxCalls
    /\ sel' = [ sel EXCEPT
                  !.view.loading = TRUE,
                  !.calls = Append(@, [ kind |-> "refetch", source |-> AllSources,
                                        pc |-> "evals", wrote |-> FALSE ]) ]
    /\ UNCHANGED << notPage, runVars, btn, sock, reg >>

\* refetch() after fetchSummaries(): selectSource("all") when there are
\* evaluations, setLoading(false) when there are none
RefetchEvals(i) ==
    /\ i <= Len(sel.calls)
    /\ sel.calls[i].pc = "evals"
    /\ sel' = IF sel.dir # {}
              THEN [ sel EXCEPT !.calls[i].pc = "summaries", !.view.loading = TRUE ]
              ELSE [ sel EXCEPT !.calls[i].pc = "done", !.view.loading = FALSE ]
    /\ UNCHANGED << notPage, runVars, btn, sock, reg >>

\* selectSource("all") after fetchSummaries(): nothing to show when there are
\* no evaluations, else the caches are fetched
SelectSummaries(i) ==
    /\ i <= Len(sel.calls)
    /\ sel.calls[i].pc = "summaries"
    /\ sel' = IF sel.dir = {}
              THEN [ sel EXCEPT !.calls[i].pc = "done", !.calls[i].wrote = TRUE,
                                !.view = ViewOfNothing(@) ]
              ELSE [ sel EXCEPT !.calls[i].pc = "caches" ]
    /\ UNCHANGED << notPage, runVars, btn, sock, reg >>

\* selectSource("all") after the last cache has arrived: the aggregated view
SelectCaches(i) ==
    /\ i <= Len(sel.calls)
    /\ sel.calls[i].pc = "caches"
    /\ sel' = [ sel EXCEPT !.calls[i].pc = "done", !.calls[i].wrote = TRUE,
                           !.view = ViewOfAggregate(@) ]
    /\ UNCHANGED << notPage, runVars, btn, sock, reg >>

\* selectSource(source) after its fetch: the cache is shown, or the error is
\* set when the response is not ok; finally setLoading(false)
SelectCache(i) ==
    /\ i <= Len(sel.calls)
    /\ sel.calls[i].pc = "cache"
    /\ sel' = IF sel.calls[i].source \in sel.dir
              THEN [ sel EXCEPT !.calls[i].pc = "done", !.calls[i].wrote = TRUE,
                                !.view = ViewOfCache(@, sel.calls[i].source) ]
              ELSE [ sel EXCEPT !.calls[i].pc = "done",
                                !.view.error = "Failed to fetch cache",
                                !.view.loading = FALSE ]
    /\ UNCHANGED << notPage, runVars, btn, sock, reg >>

NextSelect ==
    \/ \E source \in Sources : LedgerAppears(source)
    \/ \E source \in Requests : SelectBegin(source)
    \/ RefetchBegin
    \/ \E i \in 1..MaxCalls : RefetchEvals(i)
    \/ \E i \in 1..MaxCalls : SelectSummaries(i)
    \/ \E i \in 1..MaxCalls : SelectCaches(i)
    \/ \E i \in 1..MaxCalls : SelectCache(i)

\* ------------------------------------------------------------------ useWebSocket, the connection
SocketIds == 1..MaxSockets
TimerIds == 1..MaxTimers

\* no socket, no timer: wsRef.current or reconnectTimeoutRef.current is null
NoRef == <<>>

\* useWebSocket before its effect has run. A socket is "none" before it is
\* made and after its close event; a timer is in pending until it fires or is
\* cleared. effects counts the runs of the effect, mounted is false after the
\* cleanup of an unmount, up tells whether the server accepts connections.
IdleSocket ==
    [ state |-> [ id \in SocketIds |-> "none" ],
      wsRef |-> NoRef,
      pending |-> {},
      timerRef |-> NoRef,
      connected |-> FALSE,
      mounted |-> FALSE,
      effects |-> 0,
      up |-> TRUE,
      outages |-> 0 ]

Live(h) == { id \in SocketIds : h.state[id] \in {"connecting", "open"} }
Unused(h) == { id \in SocketIds : h.state[id] = "none" }
FreeTimers(h) == TimerIds \ h.pending
Least(ids) == CHOOSE id \in ids : \A other \in ids : id <= other

\* connect(): nothing when wsRef.current is OPEN, else a new WebSocket whose
\* reference is stored in wsRef.current
RefOpen(h) == h.wsRef # NoRef /\ h.state[h.wsRef[1]] = "open"

Connect(h) ==
    IF RefOpen(h)
    THEN h
    ELSE [ h EXCEPT !.state[Least(Unused(h))] = "connecting",
                    !.wsRef = << Least(Unused(h)) >> ]

CanConnect(h) == RefOpen(h) \/ Unused(h) # {}

\* a mutant of onclose that sets no reconnect timer
TimersAfterCloseNone(pending, t) == pending

\* ws.onclose: setTimeout(connect, 3000)
TimersAfterClose(pending, t) == pending \cup {t}

\* ws.onclose of socket id: setConnected(false), wsRef.current = null, the
\* reconnect timer is set and stored in reconnectTimeoutRef.current
OnClose(h, id) ==
    [ h EXCEPT !.state[id] = "none",
               !.connected = FALSE,
               !.wsRef = NoRef,
               !.pending = TimersAfterClose(@, Least(FreeTimers(h))),
               !.timerRef = << Least(FreeTimers(h)) >> ]

\* the effect's cleanup: the timer of reconnectTimeoutRef.current is cleared,
\* the socket of wsRef.current is closed; its close event comes later
Cleanup(h) ==
    [ h EXCEPT !.pending = IF h.timerRef # NoRef THEN @ \ {h.timerRef[1]} ELSE @,
               !.timerRef = NoRef,
               !.state = IF h.wsRef # NoRef
                         THEN [ @ EXCEPT ![h.wsRef[1]] = "closing" ]
                         ELSE @ ]

\* useEffect on mount: connect()
EffectMount ==
    /\ ~sock.mounted
    /\ sock.effects = 0
    /\ sock' = [ Connect(sock) EXCEPT !.mounted = TRUE, !.effects = 1 ]
    /\ UNCHANGED << notPage, runVars, btn, sel, reg >>

\* useEffect when connect has changed: the cleanup, then connect()
EffectRerun ==
    /\ sock.mounted
    /\ sock.effects < MaxEffects
    /\ CanConnect(Cleanup(sock))
    /\ sock' = [ Connect(Cleanup(sock)) EXCEPT !.effects = @ + 1 ]
    /\ UNCHANGED << notPage, runVars, btn, sel, reg >>

\* the component is unmounted: the cleanup
EffectUnmount ==
    /\ sock.mounted
    /\ sock' = [ Cleanup(sock) EXCEPT !.mounted = FALSE ]
    /\ UNCHANGED << notPage, runVars, btn, sel, reg >>

\* ws.onopen: setConnected(true)
SockOpened(id) ==
    /\ sock.state[id] = "connecting"
    /\ sock.up
    /\ sock' = [ sock EXCEPT !.state[id] = "open", !.connected = TRUE ]
    /\ UNCHANGED << notPage, runVars, btn, sel, reg >>

\* the connection fails, is lost, or its close() has completed: ws.onclose
SockClosed(id) ==
    /\ \/ sock.state[id] \in {"connecting", "open"} /\ ~sock.up
       \/ sock.state[id] = "closing"
    /\ FreeTimers(sock) # {}
    /\ sock' = OnClose(sock, id)
    /\ UNCHANGED << notPage, runVars, btn, sel, reg >>

\* the reconnect timer fires after 3 seconds: connect()
TimerFires(t) ==
    /\ t \in sock.pending
    /\ CanConnect(sock)
    /\ sock' = [ Connect(sock) EXCEPT !.pending = @ \ {t},
                                      !.timerRef = IF @ = << t >> THEN NoRef ELSE @ ]
    /\ UNCHANGED << notPage, runVars, btn, sel, reg >>

\* the server stops accepting connections, and accepts them again
ServerDown ==
    /\ sock.up
    /\ sock.outages < MaxOutages
    /\ sock' = [ sock EXCEPT !.up = FALSE, !.outages = @ + 1 ]
    /\ UNCHANGED << notPage, runVars, btn, sel, reg >>

ServerUp ==
    /\ ~sock.up
    /\ sock' = [ sock EXCEPT !.up = TRUE ]
    /\ UNCHANGED << notPage, runVars, btn, sel, reg >>

SocketEvents ==
    \/ \E id \in SocketIds : SockOpened(id) \/ SockClosed(id)
    \/ \E t \in TimerIds : TimerFires(t)
    \/ ServerUp

\* a mounted hook, a server that may fail
NextReconnect ==
    \/ EffectMount
    \/ EffectRerun
    \/ ServerDown
    \/ SocketEvents

\* the whole life of the hook, the unmount included
NextSocket ==
    \/ EffectUnmount
    \/ NextReconnect

\* ------------------------------------------------------------------ RunButton
\* the client whose page holds the button
ButtonClient == "c1"

\* RunButton after its first render; pc is "sent" while the fetch of
\* POST /api/run is awaited; clicks counts the requests sent, whileRunning
\* tells whether one of them was sent while the server's pipeline was running
IdleButton ==
    [ localLoading |-> FALSE, error |-> "", pc |-> "idle", clicks |-> 0,
      whileRunning |-> FALSE ]

InitPage == btn = IdleButton /\ sock = IdleSocket /\ sel = IdleSelect /\ reg = IdleRegistry

\* handleClick, finally: setLocalLoading(false)
LoadingAfterAnswer(status) == FALSE

\* RunButton: const isRunning = runStatus.status === "running" || localLoading
IsRunning == hook[ButtonClient].status = "running" \/ btn.localLoading

\* handleClick up to `await fetch`: the guard, setLocalLoading(true),
\* setError(null), the request is sent
ButtonClick ==
    /\ ~IsRunning
    /\ btn.pc = "idle"
    /\ btn.clicks < MaxClicks
    /\ btn' = [ btn EXCEPT !.localLoading = TRUE, !.error = "", !.pc = "sent",
                           !.clicks = @ + 1,
                           !.whileRunning = @ \/ pipelineRunning ]
    /\ http' = [ status |-> 0, error |-> "", wasRunning |-> FALSE, changed |-> FALSE ]
    /\ UNCHANGED << pipelineRunning, pipelineProcess, proc, wsClients, inbox, hook, st >>
    /\ UNCHANGED << notPage, sock, sel, reg >>

\* the request of the button reaches the server: POST /api/run
ButtonPost ==
    /\ btn.pc = "sent"
    /\ http.status = 0
    /\ \/ PostRunRejected
       \/ PostRunStarted(MaxNotifyRuns)
       \/ PostRunSpawnThrows(MaxNotifyRuns)

\* handleClick after `await fetch`: setError when the response is not ok,
\* then the finally clause
ButtonAnswered ==
    /\ btn.pc = "sent"
    /\ http.status # 0
    /\ btn' = [ btn EXCEPT !.localLoading = LoadingAfterAnswer(http.status),
                           !.error = http.error,
                           !.pc = "idle" ]
    /\ UNCHANGED runVars
    /\ UNCHANGED << notPage, sock, sel, reg >>


PipelineSteps ==
    \E p \in 1..MaxPipelineRuns :
      \/ ChildStdout(p)
      \/ ChildStderr(p)
      \/ ChildRecord(p)
      \/ ChildExit(p)
      \/ ReadStdout(p)
      \/ ReadStderr(p)
      \/ RunEnded(p)

ClientSteps(clients) ==
    \E c \in clients :
      \/ WsOpen(c)
      \/ WsClose(c)
      \/ OnMessage(c)

NextButton ==
    \/ ButtonClick
    \/ ButtonPost
    \/ ButtonAnswered
    \/ PipelineSteps
    \/ ClientSteps({ButtonClient})

NextRun ==
    \/ PostRunRejected
    \/ PostRunStarted(MaxPipelineRuns)
    \/ PostRunSpawnThrows(MaxPipelineRuns)
    \/ PipelineSteps
    \/ ClientSteps(OneClient)

\* the server alone: the two routes and the runs, no client connected
NextStatus ==
    \/ PostRunRejected
    \/ GetStatus
    \/ PostRunStarted(MaxPipelineRuns)
    \/ PostRunSpawnThrows(MaxPipelineRuns)
    \/ PipelineSteps

NextNotify ==
    \/ PostRunRejected
    \/ PostRunStarted(MaxNotifyRuns)
    \/ PostRunSpawnThrows(MaxNotifyRuns)
    \/ PipelineSteps
    \/ ClientSteps(Clients)

\* ------------------------------------------------------------------ server: loadCache
\* what a ledger file can hold after it was damaged from outside: nothing
\* readable, cut JSON, null, an object without models, a model that is null,
\* a model with a best score only
Damaged(source) ==
    { Unreadable,
      TruncatedText(EmptyCache(source)),
      JsonText(JsonNull),
      JsonText([ source_file |-> source ]),
      JsonText([ source_file |-> source, models |-> [ k \in {ModelKey(<<"a">>, <<"x">>)} |-> JsonNull ] ]),
      JsonText([ source_file |-> source,
                 models |-> [ k \in {ModelKey(<<"a">>, <<"x">>)} |-> [ best_score |-> 80 ] ] ]) }

IdleLoad ==
    [ pc |-> "idle", stem |-> "", cache |-> NULL, input |-> "none",
      outcome |-> "none", value |-> NULL, logged |-> FALSE ]

InitLoad == ld = IdleLoad

\* loadCache: model.latest_score ?? model.best_score ?? null, <<>> for null;
\* reading a property of null throws, which the caller of ScoreOf rules out
ScoreOf(model) ==
    IF "latest_score" \in DOMAIN model THEN << model.latest_score >>
    ELSE IF "best_score" \in DOMAIN model THEN << model.best_score >>
    ELSE <<>>

RECURSIVE ScoresOf(_, _)
ScoresOf(models, keys) ==
    IF keys = {} THEN <<>>
    ELSE LET k == CHOOSE x \in keys : TRUE
         IN  ScoreOf(models[k]) \o ScoresOf(models, keys \ {k})

RECURSIVE SumSeq(_)
SumSeq(q) == IF q = <<>> THEN 0 ELSE Head(q) + SumSeq(Tail(q))

RECURSIVE MaxSeq(_)
MaxSeq(q) == IF Len(q) = 1 THEN Head(q) ELSE Max(Head(q), MaxSeq(Tail(q)))

\* loadCache, the helper fields: the best and the average of the scores, <<>>
\* for null; the average is kept as the sum and the count it divides by
WithHelpers(cache) ==
    LET models == IF "models" \in DOMAIN cache THEN cache.models ELSE <<>>
        scores == ScoresOf(models, DOMAIN models)
    IN  [ cache |-> cache,
          best_score |-> IF scores = <<>> THEN <<>> ELSE << MaxSeq(scores) >>,
          average_score |-> IF scores = <<>> THEN <<>>
                            ELSE << [ sum |-> SumSeq(scores), count |-> Len(scores) ] >> ]

\* the ledger is damaged or removed from outside the program
DamageLedger ==
    /\ wr.pc = "idle"
    /\ \E s \in Sources :
         \/ \E content \in Damaged(s) : files' = WriteFile(LedgerName(s), content)
         \/ /\ Exists(LedgerName(s))
            /\ files' = [ n \in (DOMAIN files) \ {LedgerName(s)} |-> files[n] ]
    /\ UNCHANGED << clock, wr, persisted, ld >>
    /\ UNCHANGED << aggVars, readVars, runVars, pureVars, pageVars, keyVars >>

\* readJsonFile, `await file.exists()`: null when the file is missing
LoadCacheExists ==
    /\ ld.pc \in {"idle", "done"}
    /\ \E s \in Sources :
         ld' = IF Exists(LedgerName(s))
               THEN [ IdleLoad EXCEPT !.pc = "text", !.stem = s ]
               ELSE [ IdleLoad EXCEPT !.pc = "done", !.stem = s,
                                      !.input = "missing", !.outcome = "null" ]
    /\ UNCHANGED notLoad

\* readJsonFile, `await file.text()` and JSON.parse: the document, or null and
\* a line on the console when either throws; loadCache returns null for null
LoadCacheText ==
    /\ ld.pc = "text"
    /\ LET name == LedgerName(ld.stem)
           ok == Exists(name) /\ files[name].kind = "json"
       IN  ld' = IF ~ok
                 THEN [ ld EXCEPT !.pc = "done", !.outcome = "null", !.logged = TRUE,
                                  !.input = IF Exists(name) THEN files[name].kind ELSE "missing" ]
                 ELSE IF IsJsonNull(files[name].value)
                 THEN [ ld EXCEPT !.pc = "done", !.outcome = "null", !.input = "json" ]
                 ELSE [ ld EXCEPT !.pc = "scores", !.cache = files[name].value, !.input = "json" ]
    /\ UNCHANGED notLoad

\* loadCache, the loop over Object.values(models) and the return: reading
\* latest_score of a model that is null throws a TypeError to the caller
LoadCacheScores ==
    /\ ld.pc = "scores"
    /\ LET models == IF "models" \in DOMAIN ld.cache THEN ld.cache.models ELSE <<>>
       IN  ld' = IF \E k \in DOMAIN models : IsJsonNull(models[k])
                 THEN [ ld EXCEPT !.pc = "done", !.outcome = "throws" ]
                 ELSE [ ld EXCEPT !.pc = "done", !.outcome = "value",
                                  !.value = WithHelpers(ld.cache) ]
    /\ UNCHANGED notLoad

NextLoadLedger ==
    \/ RecordBegin(FewResults, MaxLoadRuns)
    \/ PersistWriteTemp
    \/ PersistFlushTemp
    \/ PersistReplace
    \/ DamageLedger
    \/ LoadCacheExists
    \/ LoadCacheText
    \/ LoadCacheScores

\* what makes `await file.text()` or JSON.parse throw in getEvaluationCaches
Broken(source) == { Unreadable, TruncatedText(EmptyCache(source)) }

\* a ledger of the results directory becomes unreadable or stops being JSON
BreakLedger ==
    /\ wr.pc = "idle"
    /\ \E s \in Sources :
         /\ Exists(LedgerName(s))
         /\ \E content \in Broken(s) : files' = WriteFile(LedgerName(s), content)
    /\ UNCHANGED << clock, wr, persisted, ld >>
    /\ UNCHANGED << aggVars, readVars, runVars, pureVars, pageVars, keyVars >>

OneResult == { r \in Results : r.overall_score = 80 }

\* ------------------------------------------------------------------ model keys
\* (provider, model_id) pairs as `_metadata` of an output file gives them:
\* any strings, a colon included
KeyedModels ==
    { [provider |-> <<"a">>, model_id |-> <<"b", ":", "c">>],
      [provider |-> <<"a", ":", "b">>, model_id |-> <<"c">>],
      [provider |-> <<"a">>, model_id |-> <<"c">>] }

KeyOf(m) == ModelKey(m.provider, m.model_id)

NoLookup == [ source |-> "null", model |-> NULL, run_count |-> 0, recorded |-> 0 ]
NoAggregate == [ models |-> <<>>, recorded |-> [ m \in KeyedModels |-> 0 ], made |-> FALSE ]

IdleKeys ==
    [ caches |-> [ s \in Sources |-> EmptyCache(s) ],
      runs |-> [ s \in Sources |-> [ m \in KeyedModels |-> 0 ] ],
      n |-> 0, shown |-> NoLookup, aggregated |-> NoAggregate ]

InitKey == km = IdleKeys

\* record: one more run of model m in the ledger of source s
KeyRecord ==
    /\ km.n < MaxKeyRuns
    /\ \E s \in Sources, m \in KeyedModels, r \in OneResult :
         km' = [ km EXCEPT
                   !.caches[s] = RecordInto(@, m, r, Iso(km.n + 1)),
                   !.runs[s][m] = @ + 1,
                   !.n = @ + 1 ]
    /\ UNCHANGED << ledgerVars, aggVars, readVars, runVars, loadVars, pureVars, pageVars >>

\* GET /api/pdfs/:stem/models: cache?.models?.[cacheKey] and its run_count ?? 0
KeyLookup ==
    /\ \E s \in Sources, m \in KeyedModels :
         LET cacheKey == KeyOf(m)
             models == km.caches[s].models
         IN  km' = [ km EXCEPT
                       !.shown = [ source |-> s, model |-> m,
                                   run_count |-> IF cacheKey \in DOMAIN models
                                                 THEN models[cacheKey].run_count ELSE 0,
                                   recorded |-> km.runs[s][m] ] ]
    /\ UNCHANGED << ledgerVars, aggVars, readVars, runVars, loadVars, pureVars, pageVars >>

RECURSIVE RunsOf(_, _)
RunsOf(sources, m) ==
    IF sources = {} THEN 0
    ELSE LET s == CHOOSE x \in sources : TRUE
         IN  km.runs[s][m] + RunsOf(sources \ {s}, m)

\* selectSource("all"): aggregateCaches over the ledgers that hold runs
KeyAggregate ==
    /\ \E order \in Orders({ s \in Sources : DOMAIN km.caches[s].models # {} }) :
         km' = [ km EXCEPT
                   !.aggregated =
                       [ models |-> AggregateCaches([ i \in 1..Len(order) |-> km.caches[order[i]] ]),
                         recorded |-> [ m \in KeyedModels |-> RunsOf(Sources, m) ],
                         made |-> TRUE ] ]
    /\ UNCHANGED << ledgerVars, aggVars, readVars, runVars, loadVars, pureVars, pageVars >>

NextKey ==
    \/ KeyRecord
    \/ KeyLookup
    \/ KeyAggregate

\* the listing of a results directory whose ledgers can be damaged
NextListLedger ==
    \/ RecordBegin(OneResult, MaxListRuns)
    \/ PersistWriteTemp
    \/ PersistFlushTemp
    \/ PersistReplace
    \/ BreakLedger
    \/ ListDir
    \/ ListRead
    \/ ListDone

NextLedger ==
    \/ RecordBegin(Results, MaxRuns)
    \/ PersistWriteTemp
    \/ PersistFlushTemp
    \/ PersistReplace
    \/ PersistFail

InitState == InitLedger /\ InitAgg /\ InitRead /\ InitRun /\ InitLoad /\ InitPage /\ InitKey

Init == InitState /\ ch = IdleChart /\ sc = IdleScore /\ fm = IdleMatch /\ ws = IdleHook

InitChart == InitState /\ ChartGiven /\ sc = IdleScore /\ fm = IdleMatch /\ ws = IdleHook

InitScore == InitState /\ ch = IdleChart /\ ScoreGiven /\ fm = IdleMatch /\ ws = IdleHook

InitMatch == InitState /\ ch = IdleChart /\ sc = IdleScore /\ MatchGiven /\ ws = IdleHook

Next == NextLedger

Spec == Init /\ [][Next]_vars

\* the server's pipeline runner with one dashboard
SpecRun == Init /\ [][NextRun]_vars

\* one pipeline run with two dashboards
SpecNotify == Init /\ [][NextNotify]_vars

\* the transformations to chart data, applied to the caches given
SpecChart == InitChart /\ [][NextChart]_vars

\* the server's routes and runs, with no client
SpecStatus == Init /\ [][NextStatus]_vars

\* useWebSocket's connection while mounted: every event that can happen is
\* handled in the end, and the server comes back after an outage
SpecReconnect ==
    /\ Init
    /\ [][NextReconnect]_vars
    /\ WF_vars(EffectMount)
    /\ WF_vars(ServerUp)
    /\ \A id \in SocketIds : WF_vars(SockOpened(id)) /\ WF_vars(SockClosed(id))
    /\ \A t \in TimerIds : WF_vars(TimerFires(t))

\* getEvaluationCaches over ledgers that record writes and that can be damaged
SpecList == Init /\ [][NextListLedger]_vars

\* lookups and aggregates over the ledgers of models whose names hold a colon
SpecKey == Init /\ [][NextKey]_vars

\* the server's registry of WebSocket clients and its broadcasts
SpecRegistry == Init /\ [][NextRegistry]_vars

\* useEvaluationData with calls of selectSource and refetch that overlap
SpecSelect == Init /\ [][NextSelect]_vars

\* useWebSocket's connection from mount to unmount
SpecSocket == Init /\ [][NextSocket]_vars

\* the Run button of one page, the server and the runs it starts
SpecButton == Init /\ [][NextButton]_vars

\* useWebSocket, handling more messages than it keeps
SpecStream == Init /\ [][NextStream]_vars

\* useWebSocket, handling what the socket delivers
SpecHook == Init /\ [][NextHook]_vars

\* FieldMatcher, applied to the section pairs given
SpecMatch == InitMatch /\ [][NextMatch]_vars

\* AggregateScorer, applied to the components given
SpecScore == InitScore /\ [][NextScore]_vars

\* record and damage from outside, beside loadCache
SpecLoad == Init /\ [][NextLoadLedger]_vars

\* record beside the server's readers of the ledgers
SpecRead == Init /\ [][NextReadLedger]_vars

\* record calls that succeed, beside the aggregating hook
SpecAgg == Init /\ [][NextAggLedger]_vars

\* ------------------------------------------------------------------ claims on record
RECURSIVE SumField(_, _)
SumField(history, f) ==
    IF history = <<>> THEN 0
    ELSE FieldOr0(Head(history), f) + SumField(Tail(history), f)

RECURSIVE MaxOverall(_)
MaxOverall(history) ==
    IF history = <<>> THEN 0
    ELSE Max(Head(history).overall_score, MaxOverall(Tail(history)))

\* the caches of the ledger: every ledger file that holds a whole text, and the
\* cache record holds in memory
LedgerCaches ==
    { files[LedgerName(s)].value :
        s \in { t \in Sources : Exists(LedgerName(t)) /\ files[LedgerName(t)].kind = "json" } }
    \cup { wr.cache }

TotalsMatchHistory(m) ==
    /\ m.run_count = Len(m.run_history)
    /\ m.total_schema_compliance = SumField(m.run_history, "schema_compliance")
    /\ m.total_structural_accuracy = SumField(m.run_history, "structural_accuracy")
    /\ m.total_semantic_accuracy = SumField(m.run_history, "semantic_accuracy")
    /\ m.total_config_accuracy = SumField(m.run_history, "config_accuracy")
    /\ m.total_overall_score = SumField(m.run_history, "overall_score")
    /\ m.total_cost = SumField(m.run_history, "cost")
    /\ m.total_input_tokens = SumField(m.run_history, "input_tokens")
    /\ m.total_output_tokens = SumField(m.run_history, "output_tokens")

\* C3: after any sequence of record calls every CachedModelResult has
\* run_count = length(run_history) and each total equal to the sum of that
\* component over run_history, a missing cost or token value counting as 0.
C3_TotalsMatchHistory ==
    \A c \in LedgerCaches : \A k \in DOMAIN c.models : TotalsMatchHistory(c.models[k])

\* C3 witness: a persisted model with three runs, one of them without a cost,
\* whose total_cost is the sum of the two costs there are
C3_Witness ==
    \E s \in Sources :
        /\ Exists(LedgerName(s))
        /\ \E k \in DOMAIN files[LedgerName(s)].value.models :
             LET m == files[LedgerName(s)].value.models[k]
             IN  /\ m.run_count = 3
                 /\ \E i \in 1..3 : "cost" \notin DOMAIN m.run_history[i]
                 /\ m.total_cost = 4
                 /\ m.total_input_tokens = 11

\* the CachedModelResult the last record call wrote, as the ledger file has it
LastRecorded ==
    files[LedgerName(wr.source)].value.models[ModelKey(wr.model.provider, wr.model.model_id)]

\* C4: after every record call latest_score and latest_run_timestamp are the
\* overall_score and timestamp of the run just recorded, whether it scored
\* higher or lower than earlier runs, and last_updated is that timestamp.
C4_LatestIsLastRecorded ==
    wr.outcome = "ok" =>
        /\ LastRecorded.latest_score = wr.result.overall_score
        /\ LastRecorded.latest_run_timestamp = wr.timestamp
        /\ files[LedgerName(wr.source)].value.last_updated = wr.timestamp

\* C4 witness: 0.6, 0.8, 0.7 recorded for one (source, model): run_count 3,
\* best_score 0.8, latest_score 0.7, total_overall_score 2.1
C4_Witness ==
    /\ wr.outcome = "ok"
    /\ Len(LastRecorded.run_history) = 3
    /\ [ i \in 1..3 |-> LastRecorded.run_history[i].overall_score ] = << 60, 80, 70 >>
    /\ LastRecorded.run_count = 3
    /\ LastRecorded.best_score = 80
    /\ LastRecorded.latest_score = 70
    /\ LastRecorded.total_overall_score = 210

\* best_score of the last recorded model before that record call, 0 when the
\* model was not in the ledger
BestBefore ==
    LET key == ModelKey(wr.model.provider, wr.model.model_id)
    IN  IF wr.before # NULL /\ key \in DOMAIN wr.before.value.models
        THEN wr.before.value.models[key].best_score
        ELSE 0

BestIsMaxAndMonotone ==
    /\ \A c \in LedgerCaches : \A k \in DOMAIN c.models :
         c.models[k].best_score = MaxOverall(c.models[k].run_history)
    /\ wr.outcome = "ok" => LastRecorded.best_score >= BestBefore

C7_FailedRecordLeavesLedger ==
    /\ wr.outcome = "error" => LedgerNow(wr.source) = wr.before
    /\ \A s \in Sources :
         /\ LedgerNow(s) # NULL => LedgerNow(s).kind = "json"
         /\ persisted[s] # <<>> =>
              LedgerNow(s) = JsonText(persisted[s][Len(persisted[s])])
         /\ persisted[s] = <<>> => LedgerNow(s) = NULL

\* C7 witness: a record on an existing ledger failed after its write began
C7_Witness ==
    /\ wr.outcome = "error"
    /\ wr.failedAt = "replace"
    /\ wr.before # NULL
    /\ wr.cache.models # wr.before.value.models
    /\ LedgerNow(wr.source).value # wr.cache

\* ------------------------------------------------------------------ claims on aggregateCaches
\* the sum of field f of model key over the caches that hold the key
RECURSIVE SumOverCaches(_, _, _)
SumOverCaches(caches, key, f) ==
    IF caches = <<>> THEN 0
    ELSE (IF key \in DOMAIN Head(caches).models THEN Head(caches).models[key][f] ELSE 0)
         + SumOverCaches(Tail(caches), key, f)

KeysOf(caches) == UNION { DOMAIN caches[i].models : i \in 1..Len(caches) }

SummedFields ==
    { "run_count", "total_schema_compliance", "total_structural_accuracy",
      "total_semantic_accuracy", "total_config_accuracy", "total_overall_score",
      "total_cost", "total_input_tokens", "total_output_tokens" }

\* C1: for the caches given to aggregateCaches, the aggregated record has
\* exactly the model keys that occur in some cache, and for each of them
\* run_count and every total_X are the sums over the caches holding the key.
C1_AggregationLaw ==
    ag.pc = "shown" =>
        /\ DOMAIN ag.aggregated = KeysOf(ag.caches)
        /\ \A k \in KeysOf(ag.caches) : \A f \in SummedFields :
             ag.aggregated[k][f] = SumOverCaches(ag.caches, k, f)

\* C1 witness: two caches aggregated, one key in both with different costs,
\* another key in one of them only
C1_Witness ==
    /\ ag.pc = "shown"
    /\ Len(ag.caches) = 2
    /\ \E k1, k2 \in KeysOf(ag.caches) :
         /\ k1 \in DOMAIN ag.caches[1].models
         /\ k1 \in DOMAIN ag.caches[2].models
         /\ ag.caches[1].models[k1].total_cost # ag.caches[2].models[k1].total_cost
         /\ ag.aggregated[k1].run_count = 2
         /\ k2 \notin DOMAIN ag.caches[1].models
         /\ k2 \in DOMAIN ag.caches[2].models

\* C2: when a key occurs in several caches, the aggregated latest_score and
\* latest_run_timestamp are those of the cache whose latest_run_timestamp is
\* the greatest string.
C2_LatestFromGreatestTimestamp ==
    ag.pc = "shown" =>
        \A k \in KeysOf(ag.caches) : \A i \in 1..Len(ag.caches) :
            ( /\ k \in DOMAIN ag.caches[i].models
              /\ \A j \in 1..Len(ag.caches) :
                   (j # i /\ k \in DOMAIN ag.caches[j].models) =>
                       StrGreater(ag.caches[i].models[k].latest_run_timestamp,
                                  ag.caches[j].models[k].latest_run_timestamp) )
            => /\ ag.aggregated[k].latest_run_timestamp =
                    ag.caches[i].models[k].latest_run_timestamp
               /\ ag.aggregated[k].latest_score = ag.caches[i].models[k].latest_score

\* ------------------------------------------------------------------ claims on readers
\* C6: a reader of a ledger, also one that reads while a record call is in
\* progress, gets a complete ledger as a complete record call persisted it
\* (the one before or the one after the record in progress), never a partly
\* written one: GET answers 200 with the ledger last persisted when it read,
\* or 404 when no record had persisted the ledger yet, and every cache of
\* the listing is a ledger persisted by a complete record call, one per source.
C6_ReadersSeeWholeLedgers ==
    /\ rd.pc = "done" =>
         \/ /\ rd.status = 200
            /\ rd.readAt >= 1
            /\ rd.body = persisted[rd.source][rd.readAt]
         \/ /\ rd.status = 404
            /\ rd.existsAt = 0
    /\ ~ls.failed
    /\ \A i \in 1..Len(ls.caches) :
         LET s == ls.caches[i].source_file
         IN  /\ \E n \in 1..Len(persisted[s]) :
                  n >= ls.from[s] /\ ls.caches[i] = persisted[s][n]
             /\ \A j \in 1..Len(ls.caches) : j # i => ls.caches[j].source_file # s

\* C6 witness: a GET read the ledger while record had its temporary file
\* written and the replace still to do, and got the ledger before that record;
\* and a listing read a ledger in the same situation
C6_Witness ==
    /\ rd.pc = "done"
    /\ rd.status = 200
    /\ rd.during = "replace"
    /\ wr.pc = "replace"
    /\ wr.source = rd.source
    /\ wr.before # NULL
    /\ rd.body = wr.before.value
    /\ rd.body # wr.cache
    /\ Exists(TempName(rd.source))
    /\ ls.pc = "done"
    /\ \E i \in 1..Len(ls.caches) : ls.caches[i] = rd.body

\* ------------------------------------------------------------------ claims on the pipeline runner
Running == { p \in DOMAIN proc : proc[p].state = "running" }

\* C8: at most one pipeline process runs at any time, and a POST /api/run that
\* arrives while a run is in progress spawns nothing, changes no run state and
\* is answered 400 "Pipeline is already running"
C8_SinglePipeline ==
    /\ Cardinality(Running) <= 1
    /\ \A p \in Running : pipelineRunning /\ pipelineProcess = << p >>
    /\ (http.status # 0 /\ http.wasRunning) =>
         /\ http.status = 400
         /\ http.error = "Pipeline is already running"
         /\ ~http.changed

\* a second run is in progress after a first has ended, and a POST has just
\* been rejected
C8_Witness ==
    /\ \E p, q \in DOMAIN proc : proc[p].ended /\ proc[p].state = "exited" /\ q \in Running
    /\ http.status = 400
    /\ http.wasRunning

\* the server has nothing left to do: no run in progress, the pipes are drained
Quiescent ==
    /\ ~pipelineRunning
    /\ \A p \in DOMAIN proc :
         /\ proc[p].state \in {"none", "failed", "exited"}
         /\ proc[p].state = "exited" => proc[p].ended
         /\ proc[p].out = <<>>
         /\ proc[p].err = <<>>

\* C9: every ledger change made by a pipeline run is followed by a
\* cache_updated broadcast to the clients connected then, and every client that
\* handles cache_updated has called its refresh callback
C9_LedgerChangeNotified ==
    /\ Quiescent =>
         \A p \in DOMAIN proc :
           proc[p].records > 0 =>
             \E q \in DOMAIN proc : q >= p /\ proc[q].notified # <<>>
    /\ \A c \in Clients : hook[c].refreshes = hook[c].handled

\* ------------------------------------------------------------------ claims on loading
\* C10: loading a ledger never fails: a missing ledger is no history, the
\* empty cache for record and null for loadCache, and a corrupt or unreadable
\* one is logged and gives the same empty value, with no error to the caller
C10_LoadNeverFails ==
    /\ \A s \in Sources :
         (~Exists(LedgerName(s)) \/ files[LedgerName(s)].kind # "json") =>
           Load(s) = EmptyCache(s)
    /\ ld.pc = "done" =>
         /\ ld.outcome # "throws"
         /\ ld.input = "missing" => ld.outcome = "null"
         /\ ld.input \in {"unreadable", "truncated"} => ld.outcome = "null" /\ ld.logged

\* ------------------------------------------------------------------ claims on the frame of the readers
\* C11: the dashboard and API layer only read ledgers: a ledger file is
\* created, modified or deleted by no step of the server's readers, only by
\* the replace that completes a record
C11_OnlyRecordChangesLedgers ==
    [][ \A s \in Sources :
          LedgerNow(s)' # LedgerNow(s) =>
            /\ wr.pc = "replace"
            /\ wr.source = s
            /\ wr'.outcome = "ok"
            /\ LedgerNow(s)' = JsonText(wr.cache) ]_vars

\* both readers have returned a ledger that record wrote, and the file still
\* holds what they read
C11_Witness ==
    /\ rd.pc = "done"
    /\ rd.status = 200
    /\ LedgerNow(rd.source) = JsonText(rd.body)
    /\ ls.pc = "done"
    /\ Len(ls.caches) = 2
    /\ \A i \in 1..2 : LedgerNow(ls.caches[i].source_file) = JsonText(ls.caches[i])

\* ------------------------------------------------------------------ claims on the aggregated view
\* the best_score values a key has in the caches that contain it
BestScoresOf(caches, key) ==
    { caches[i].models[key].best_score :
        i \in { j \in 1..Len(caches) : key \in DOMAIN caches[j].models } }

\* C12: for every model key, the aggregated best_score is the maximum of the
\* key's best_score over the caches that contain the key
C12_BestIsMaxOverCaches ==
    ag.pc = "shown" =>
        \A k \in KeysOf(ag.caches) :
            /\ ag.aggregated[k].best_score \in BestScoresOf(ag.caches, k)
            /\ \A b \in BestScoresOf(ag.caches, k) : b <= ag.aggregated[k].best_score

\* a key in two caches whose best scores differ, the greater one in the first
C12_Witness ==
    /\ ag.pc = "shown"
    /\ Len(ag.caches) = 2
    /\ \E k \in DOMAIN ag.caches[1].models :
         /\ k \in DOMAIN ag.caches[2].models
         /\ ag.caches[1].models[k].best_score > ag.caches[2].models[k].best_score
         /\ ag.aggregated[k].best_score = ag.caches[1].models[k].best_score

\* C14: aggregateCaches is a pure view: the caches given to it and the
\* entries in them are after the call what the responses held, and while the
\* aggregated view is shown isAggregated is true and no cache is selected
C14_AggregateIsPureView ==
    /\ ag.pc = "shown" => ag.caches = ag.fetched
    /\ ag.chartOf = "aggregate" => ag.isAggregated /\ ag.selectedCache = NULL
    /\ ag.isAggregated => ag.chartOf = "aggregate"

\* the aggregated view of two caches that share a key is shown
C14_Witness ==
    /\ ag.pc = "shown"
    /\ ag.chartOf = "aggregate"
    /\ Len(ag.fetched) = 2
    /\ \E k \in DOMAIN ag.fetched[1].models :
         /\ k \in DOMAIN ag.fetched[2].models
         /\ ag.aggregated[k] # ag.fetched[1].models[k]

\* the rows of the chart data, by key
RowOf(key) == CHOOSE row \in { ch.chartData[i] : i \in 1..Len(ch.chartData) } : row.key = key

\* p is total/n as a whole percentage: no whole number is nearer
NearestPercent(p, total, n) ==
    /\ 2 * (p * n - total) <= n
    /\ 2 * (total - p * n) <= n

ScoreTotals ==
    [ overall |-> "total_overall_score", schema |-> "total_schema_compliance",
      structure |-> "total_structural_accuracy", semantic |-> "total_semantic_accuracy",
      config |-> "total_config_accuracy" ]

\* C13: per-model averages are derived when a cache is transformed, as
\* total_X / run_count (a whole percentage for the five scores, the fraction
\* itself for the cost), are 0 when run_count is 0, and are not stored in the
\* cache entries
C13_AveragesDerived ==
    ch.pc = "shown" =>
        /\ { ch.chartData[i].key : i \in 1..Len(ch.chartData) } = DOMAIN ch.of
        /\ Len(ch.chartData) = Cardinality(DOMAIN ch.of)
        /\ \A k \in DOMAIN ch.of :
             LET m == ch.of[k]
                 row == RowOf(k)
             IN  /\ \A f \in DOMAIN ScoreTotals :
                       IF m.run_count = 0 THEN row[f] = 0
                       ELSE NearestPercent(row[f], m[ScoreTotals[f]], m.run_count)
                 /\ IF m.run_count = 0 THEN row.averageCost.num = 0
                    ELSE row.averageCost.num * m.run_count
                           = FieldOr0(m, "total_cost") * row.averageCost.den
        /\ ch.caches = ch.given

\* a transformed cache with an entry without runs and an entry of three runs
\* whose average is not a whole percentage
C13_Witness ==
    /\ ch.pc = "shown"
    /\ Len(ch.given) = 1
    /\ \E k \in DOMAIN ch.of : ch.of[k].run_count = 0
    /\ \E k \in DOMAIN ch.of :
         /\ ch.of[k].run_count = 3
         /\ RowOf(k).overall * 3 # ch.of[k].total_overall_score
         /\ RowOf(k).averageCost.num > 0

\* ------------------------------------------------------------------ claims on the scores
\* C15: the four weights are 0.15, 0.20, 0.30 and 0.35 and sum to 1.0; in
\* every AggregateScores each component lies in [0,1] and overall_score is the
\* weighted sum of the other four, so that it lies in [0,1] too
C15_WeightedOverall ==
    /\ Weights.schema_compliance = 15
    /\ Weights.structural_accuracy = 20
    /\ Weights.semantic_accuracy = 30
    /\ Weights.config_accuracy = 35
    /\ WeightedSum([ f \in DOMAIN Weights |-> 1 ], DOMAIN Weights) = 100
    /\ sc.pc = "scored" =>
         /\ \A f \in DOMAIN sc.scores : sc.scores[f] \in 0..100
         /\ 100 * sc.scores.overall_score
              = 15 * sc.scores.schema_compliance + 20 * sc.scores.structural_accuracy
                + 30 * sc.scores.semantic_accuracy + 35 * sc.scores.config_accuracy
    /\ \A r \in Results :
         100 * r.overall_score
           = 15 * r.schema_compliance + 20 * r.structural_accuracy
             + 30 * r.semantic_accuracy + 35 * r.config_accuracy

\* scores whose components differ and whose overall lies strictly between
\* the least and the greatest of them
C15_Witness ==
    /\ sc.pc = "scored"
    /\ sc.scores.schema_compliance = 100
    /\ sc.scores.config_accuracy = 40
    /\ sc.scores.overall_score > 40
    /\ sc.scores.overall_score < 100

\* ------------------------------------------------------------------ claims on field matching
EvaluationsOfSource(g) == { i \in 1..Len(fm.fields) : fm.fields[i].source_field_id = g }
EvaluationsOfCandidate(c) == { i \in 1..Len(fm.fields) : fm.fields[i].model_field_id = c }

\* C16: within one aligned section pair the evaluations partition the field
\* slots: every ground-truth field is in exactly one evaluation, of type
\* exact, partial or missing; every candidate field is in exactly one, the
\* candidate of an exact or partial one or the subject of an extra one; a
\* missing evaluation has no candidate id, an exact or partial one has both ids
C16_FieldsPartitioned ==
    fm.pc = "done" =>
        /\ \A g \in fm.gt :
             /\ Cardinality(EvaluationsOfSource(g)) = 1
             /\ \A i \in EvaluationsOfSource(g) :
                  fm.fields[i].match_type \in {"exact", "partial", "missing"}
        /\ \A c \in fm.cand :
             /\ Cardinality(EvaluationsOfCandidate(c)) = 1
             /\ \A i \in EvaluationsOfCandidate(c) :
                  fm.fields[i].match_type \in {"exact", "partial", "extra"}
        /\ \A i \in 1..Len(fm.fields) :
             LET e == fm.fields[i]
             IN  /\ e.match_type \in {"exact", "partial", "missing", "extra"}
                 /\ e.match_type = "missing" =>
                      e.model_field_id = NoField /\ e.source_field_id \in fm.gt
                 /\ e.match_type \in {"exact", "partial"} =>
                      e.source_field_id \in fm.gt /\ e.model_field_id \in fm.cand
                 /\ e.match_type = "extra" =>
                      e.source_field_id = NoField /\ e.model_field_id \in fm.cand

\* two fields on either side: one pair is assigned, the candidate of it is
\* also similar to the other ground-truth field, which ends as missing, and
\* the other candidate ends as extra
C16_Witness ==
    /\ fm.pc = "done"
    /\ Len(fm.fields) = 3
    /\ fm.fields[1].match_type \in {"exact", "partial"}
    /\ \E g \in fm.gt :
         /\ g # fm.fields[1].source_field_id
         /\ fm.sim[<< g, fm.fields[1].model_field_id >>] > PartialThreshold
    /\ \E i, j \in 2..3 : fm.fields[i].match_type = "missing" /\ fm.fields[j].match_type = "extra"

\* ------------------------------------------------------------------ claims on the messages of a run
\* the places in the log of run p that hold a terminal outcome: run_completed,
\* or run_error with the error payload
Terminals(p) ==
    { i \in 1..Len(proc[p].log) :
        \/ proc[p].log[i].type = "run_completed"
        \/ proc[p].log[i].type = "run_error" /\ proc[p].log[i].payload = "error" }

TypesIn(p) == { proc[p].log[i].type : i \in 1..Len(proc[p].log) }

\* C17: run_started is the first message broadcast for a run and is broadcast
\* once; no terminal outcome is broadcast before the run has ended, exactly
\* one when it has: run_completed with cache_updated right after it when the
\* exit code is 0, run_error with the error payload and no cache_updated
\* when the exit code is not 0 or the spawn throws
C17_RunMessagesOrdered ==
    \A p \in DOMAIN proc :
      LET log == proc[p].log
      IN  /\ proc[p].state # "none" =>
               /\ log # <<>>
               /\ \A i \in 1..Len(log) : (log[i].type = "run_started") <=> (i = 1)
          /\ proc[p].state = "none" => log = <<>>
          /\ ~proc[p].ended => Terminals(p) = {} /\ "cache_updated" \notin TypesIn(p)
          /\ proc[p].ended =>
               /\ Cardinality(Terminals(p)) = 1
               /\ \A i \in Terminals(p) :
                    IF proc[p].state = "exited" /\ proc[p].exitCode = 0
                    THEN /\ log[i].type = "run_completed"
                         /\ i < Len(log)
                         /\ log[i + 1].type = "cache_updated"
                         /\ \A j \in 1..Len(log) : log[j].type = "cache_updated" => j = i + 1
                    ELSE /\ log[i].type = "run_error"
                         /\ "cache_updated" \notin TypesIn(p)

\* one run ended with exit code 0 after a line of it was broadcast, another
\* ended with an error
C17_Witness ==
    /\ \E p \in DOMAIN proc :
         /\ proc[p].ended /\ proc[p].state = "exited" /\ proc[p].exitCode = 0
         /\ Len(proc[p].log) = 4
    /\ \E p \in DOMAIN proc :
         /\ proc[p].ended
         /\ proc[p].state = "failed" \/ proc[p].exitCode # 0

\* the places in the log of run p that hold a message made from the output
\* of the process: model_started, model_completed, run_error with the message payload
FromOutput(p) ==
    { i \in 1..Len(proc[p].log) :
        \/ proc[p].log[i].type \in {"model_started", "model_completed"}
        \/ proc[p].log[i].type = "run_error" /\ proc[p].log[i].payload = "message" }

\* C18: every message made from the stdout or stderr of a run is broadcast
\* before the run_completed and cache_updated of that run, and a client that
\* has handled them is not put back to "running" by a message of that run
C18_OutputBeforeTerminal ==
    /\ \A p \in DOMAIN proc :
         \A i \in 1..Len(proc[p].log) :
           proc[p].log[i].type \in {"run_completed", "cache_updated"} =>
             \A j \in FromOutput(p) : j < i
    /\ Cardinality(Spawned) <= 1 =>
         \A c \in Clients : hook[c].handled > 0 => hook[c].status # "running"

\* ------------------------------------------------------------------ claims on the end of a run
\* C19: the flag and the handle are reset on every way a run can end: the flag
\* is set exactly when a handle is held, which is exactly when a spawned
\* process has not yet been seen to exit; with no such process GET /api/status
\* answers "idle" and POST /api/run is not rejected
C19_FlagResetOnEveryEnd ==
    /\ pipelineRunning <=> pipelineProcess # NULL
    /\ pipelineRunning <=> Held # {}
    /\ \A p \in Held : pipelineProcess = << p >>
    /\ st.status # "none" => (st.status = "idle" <=> ~st.held)
    /\ Held = {} => ~RouteBusy
    /\ (http.status = 400) => http.wasRunning

\* a run ended with exit code 0, another with an error, and the status asked
\* after that was "idle"
C19_Witness ==
    /\ \E p \in DOMAIN proc : proc[p].ended /\ proc[p].state = "exited" /\ proc[p].exitCode = 0
    /\ \E p \in DOMAIN proc : proc[p].ended /\ proc[p].state = "exited" /\ proc[p].exitCode # 0
    /\ Held = {}
    /\ st = [ status |-> "idle", held |-> FALSE, ended |-> 2 ]

\* ------------------------------------------------------------------ claims on the client's run status
\* C20: runStatus follows the type of the message handled: run_started and
\* model_started set "running", model_started also replaces progress;
\* run_completed sets "completed", run_error "error"; model_completed keeps
\* status and progress and replaces the message; connected and cache_updated
\* leave runStatus as it was; a text that does not parse changes no state
C20_StatusByType ==
    [][ ws' # ws =>
          LET e == ws'.event
              before == ws.runStatus
              after == ws'.runStatus
          IN  /\ ~e.parsed =>
                   /\ after = before
                   /\ ws'.messages = ws.messages
                   /\ ws'.lastMessage = ws.lastMessage
                   /\ ws'.refreshes = ws.refreshes
              /\ e.parsed =>
                   /\ e.type \in {"run_started", "model_started"} => after.status = "running"
                   /\ e.type = "model_started" => after.progress = e.progress
                   /\ e.type = "run_completed" => after.status = "completed"
                   /\ e.type = "run_error" => after.status = "error"
                   /\ e.type = "model_completed" =>
                        /\ after.status = before.status
                        /\ after.progress = before.progress
                        /\ after.message = e.message
                   /\ e.type \in {"connected", "cache_updated"} => after = before
                   /\ \A f \in WsEvents :
                        f.parsed /\ f.type = e.type =>
                          RunStatusAfter(before, f).status = after.status ]_vars

\* model_completed was handled after a model_started with progress: the
\* status and the progress are those of before, the message is the new one
C20_Witness ==
    /\ ws.count = 2
    /\ ws.event.type = "model_completed"
    /\ ws.event.message = Undefined
    /\ ws.messages[1].type = "model_started"
    /\ ws.messages[1].message = "m"
    /\ ws.runStatus = [ status |-> "running", message |-> Undefined, progress |-> "p" ]

\* ------------------------------------------------------------------ claims on the Run button
\* C21: from the click that sends the start request until the WebSocket
\* reports the end of the run (run_completed or run_error) the button is in
\* its running, disabled state, and no start request is sent while the
\* server's pipeline is running
C21_ButtonDisabledDuringRun ==
    /\ (btn.clicks > 0 /\ hook[ButtonClient].status \notin {"completed", "error"}) => IsRunning
    /\ ~btn.whileRunning

\* ------------------------------------------------------------------ claims on the client's connection
\* C22: whenever a socket of the client closes, connected becomes false and a
\* reconnect timer is set; the attempts repeat after each failed one, so with
\* a server that stays reachable in the end connected becomes true again
C22_ReconnectsAfterClose ==
    /\ [][ (\E id \in SocketIds : sock.state[id] # "none" /\ sock'.state[id] = "none") =>
             /\ ~sock'.connected
             /\ sock'.pending # {}
             /\ sock'.pending \ sock.pending # {} ]_vars
    /\ (~sock.connected) ~> sock.connected

\* the server was down, an attempt failed, and the client is connected again
C22_Witness ==
    /\ sock.outages >= 1
    /\ sock.up
    /\ sock.connected
    /\ Live(sock) # {}
    /\ sock.effects = 1

\* C23: a useWebSocket instance holds at most one live WebSocket at a time,
\* and once the cleanup of an unmount has run no reconnect timer is pending
\* and no WebSocket is opened for the effect that was torn down
C23_OneSocketNoneAfterCleanup ==
    /\ Cardinality(Live(sock)) <= 1
    /\ (sock.effects > 0 /\ ~sock.mounted) =>
         /\ sock.pending = {}
         /\ Live(sock) = {}

\* ------------------------------------------------------------------ claims on overlapping selections
Settled == \A i \in 1..Len(sel.calls) : sel.calls[i].pc = "done"

\* C24: when every selectSource and refetch call has settled, selectedCache,
\* chartData and isAggregated are those of the source asked for last, and
\* loading is false
C24_LastRequestWins ==
    (Settled /\ sel.calls # <<>>) =>
        LET last == sel.calls[Len(sel.calls)]
        IN  /\ ~sel.view.loading
            /\ (last.wrote /\ last.source = AllSources) =>
                 /\ sel.view.selectedCache = NoCache
                 /\ sel.view.chartData \in {"aggregate", "none"}
                 /\ sel.view.isAggregated <=> sel.view.chartData = "aggregate"
            /\ (last.wrote /\ last.source # AllSources) =>
                 /\ sel.view.selectedCache = last.source
                 /\ sel.view.chartData = last.source
                 /\ ~sel.view.isAggregated

\* ------------------------------------------------------------------ claims on the kept messages
\* the numbers of the deliveries that parsed
Parsable == (1..ws.count) \ ws.garbled

\* C25: after any sequence of deliveries messages holds at most 100 entries,
\* which are the parsable messages delivered last, in the order of their
\* delivery, and lastMessage is the last of them
C25_LastHundredKept ==
    LET n == Len(ws.messages)
    IN  /\ n <= KeptMessages + 1
        /\ n = IF Cardinality(Parsable) <= KeptMessages + 1
               THEN Cardinality(Parsable) ELSE KeptMessages + 1
        /\ \A i \in 1..n : ws.messages[i].timestamp \in Parsable
        /\ \A i \in 1..(n - 1) : ws.messages[i].timestamp < ws.messages[i + 1].timestamp
        /\ \A k \in Parsable :
             (n > 0 /\ k >= ws.messages[1].timestamp) =>
               \E i \in 1..n : ws.messages[i].timestamp = k
        /\ n > 0 =>
             /\ ws.lastMessage = ws.messages[n]
             /\ \A k \in Parsable : k <= ws.messages[n].timestamp
        /\ n = 0 => ws.lastMessage = NoMessage

\* more than a hundred parsable messages were delivered, with texts that did
\* not parse among them, the last delivery one of these: the first ones are gone
C25_Witness ==
    /\ Len(ws.messages) = KeptMessages + 1
    /\ Cardinality(Parsable) > KeptMessages + 1
    /\ ws.messages[1].timestamp > 1
    /\ ws.garbled # {}
    /\ ws.count \in ws.garbled

\* ------------------------------------------------------------------ claims on the subscriber registry
\* C26: wsClients holds a client exactly from its open event to its close
\* event; a broadcast sends one payload, with one timestamp, to exactly the
\* clients registered then; the first message of a connection is "connected"
C26_RegistryExact ==
    /\ wsClients = reg.open
    /\ reg.last.to \subseteq Clients
    /\ \A c \in Clients :
         /\ c \notin reg.open => reg.got[c] = <<>>
         /\ c \in reg.open =>
              /\ reg.got[c] # <<>>
              /\ reg.got[c][1].type = "connected"
              /\ \A i \in 2..Len(reg.got[c]) : reg.got[c][i].type # "connected"
         /\ \A i \in 1..Len(reg.got[c]) :
              reg.got[c][i].timestamp = reg.last.payload.timestamp =>
                /\ reg.got[c][i] = reg.last.payload
                /\ c \in reg.last.to
         /\ (c \in reg.last.to /\ c \in reg.open /\ reg.got[c][1].timestamp < reg.last.payload.timestamp) =>
              \E i \in 1..Len(reg.got[c]) : reg.got[c][i] = reg.last.payload

\* two clients are connected, one of them since before the last broadcast,
\* the other only since after it
C26_Witness ==
    /\ reg.open = Clients
    /\ reg.last.to # {}
    /\ reg.last.to # Clients
    /\ \E c \in reg.last.to : Len(reg.got[c]) >= 2
    /\ \E c \in Clients \ reg.last.to : Len(reg.got[c]) = 1

\* ------------------------------------------------------------------ claims on the listing of damaged ledgers
\* the file is a ledger that parses and is complete
WellFormedLedger(name) ==
    /\ Exists(name)
    /\ IsCacheFile(name)
    /\ files[name].kind = "json"
    /\ WellFormed(files[name].value)

\* C27: getEvaluationCaches returns every well-formed ledger of the results
\* directory also when another ledger is unreadable or is not JSON: when the
\* listing ends, no well-formed ledger that readdir gave is left unread
C27_BadLedgerAloneDropped ==
    [][ (ls.pc = "reading" /\ ls'.pc = "done") =>
          \A i \in 1..Len(ls'.pending) : ~WellFormedLedger(ls'.pending[i]) ]_vars

\* ------------------------------------------------------------------ claims on the model key
\* C28: two models with different (provider, model_id) never share a model
\* key, so the lookup of a model's statistics and the aggregate over the
\* sources count the runs of that model alone
C28_DistinctModelsKeptApart ==
    /\ km.shown.run_count = km.shown.recorded
    /\ \A m \in KeyedModels :
         km.aggregated.recorded[m] > 0 =>
            /\ KeyOf(m) \in DOMAIN km.aggregated.models
            /\ km.aggregated.models[KeyOf(m)].run_count = km.aggregated.recorded[m]

====
